---------------------------- MODULE Spec2Model ----------------------------
(***************************************************************************)
(* FBugReporter: the report submission client.                             *)
(*                                                                         *)
(* Two programs are modelled, chosen by `variant`:                         *)
(*   "connector"  - src/reporter_connector/main.cpp  (reporter(), which    *)
(*                  validates, launches the collector and calls            *)
(*                  send_report with its connect loop)                     *)
(*   "connectors" - src/reporter_connectors/main.cpp (main() calling       *)
(*                  send_report, a single pass)                            *)
(* Each library / system call of the code is one step.  The operating      *)
(* system's socket table, the collector's behaviour and the number of      *)
(* calls made are the environment, recorded in fds, hist and calls.        *)
(*                                                                         *)
(* The example UI (src/example/scenes/reporter.gd, src/example/            *)
(* MainScene.gd), chosen by `scene`, is modelled in SpecUI: a step is a    *)
(* press of the Send button, an edit by the user, or a frame_post_draw     *)
(* signal that resumes the suspended handlers.                             *)
(*                                                                         *)
(* The installers (src/install/install_server/install_server.go,           *)
(* src/install/install_reporter/install_reporter.go), chosen by `program`, *)
(* are modelled in SpecInstall: a step is one function of the installer,   *)
(* the files it reads and writes are the variable `files`.                 *)
(***************************************************************************)
EXTENDS Integers, Sequences, FiniteSets, TLC

VARIABLES
    variant,      \* which program runs
    win32,        \* TRUE: the _WIN32 build (Winsock), FALSE: the __linux__ build
    report,       \* GameReport: field id -> byte length of the field's text
    pc,           \* the statement the program is at
    limit_result, \* reporter(): optional<REPORT_FIELD>, {} or {field}
    i,            \* send_report: the for loop's counter
    answer_code,  \* send_report: the answer variable
    addr,         \* addr_info_result: "null", "alloc" or "freed"
    return_code,  \* send_report: return_code
    socket,       \* send_report: the FSocket of the current iteration
    fld,          \* send_data: the field that is written next
    result,       \* what send_report returned
    ret,          \* what reporter() returned ({} while it runs)
    fds,          \* the sockets socket() created, by descriptor
    calls,        \* number of calls made, by call name
    hist,         \* what the environment did so far
    threads,      \* two concurrent send_report calls: each thread's locals
    ptab,         \* two concurrent calls: the process's descriptor table
    alone,        \* each thread's call replayed alone with the same responses
    foreign,      \* a thread used a descriptor that belongs to the other one
    scene,               \* which script of the example UI runs
    report_name_node,    \* the text of the summary box
    report_text_node,    \* the text of the report box
    sender_name_node,    \* the text of the name box
    sender_email_node,   \* the text of the email box
    screenshot_option_box, \* the selected id of the screenshot option
    result_text_node,    \* the message shown
    ui_visible,          \* get_node("UI").visible
    reporter,            \* the FBugReporter node: the report data set on it
    coroutines,          \* the handlers suspended at an await, in signal order
    sends,               \* the calls of reporter.send_report() made so far
    presses,             \* number of presses of the Send button
    edits,               \* number of edits the user made
    program,             \* which installer runs
    goos,                \* runtime.GOOS
    step,                \* the function the installer is going to call
    files,               \* the content of the files the installer works on
    script_dir,          \* install_reporter: the script directory the user chose
    printed,             \* the messages the installer printed
    asked,               \* the overwrite questions asked and the answers given
    runs                 \* how many times the installer has been run

\* The state of the example UI (SpecUI).
uvars == <<scene, report_name_node, report_text_node, sender_name_node,
           sender_email_node, screenshot_option_box, result_text_node,
           ui_visible, reporter, coroutines, sends, presses, edits>>

\* The state of the installers (SpecInstall).
gvars == <<program, goos, step, files, script_dir, printed, asked, runs>>

\* The state of two concurrent calls of send_report (SpecPar), and the state
\* of the other programs.
tvars == <<threads, ptab, alone, foreign, uvars, gvars>>

\* The example UI is not running.
NoScene ==
    /\ scene = "none"
    /\ report_name_node = ""
    /\ report_text_node = ""
    /\ sender_name_node = ""
    /\ sender_email_node = ""
    /\ screenshot_option_box = 0
    /\ result_text_node = ""
    /\ ui_visible = FALSE
    /\ reporter = <<>>
    /\ coroutines = <<>>
    /\ sends = <<>>
    /\ presses = 0
    /\ edits = 0

\* No installer is running.
NoInstaller ==
    /\ program = "none"
    /\ goos = "linux"
    /\ step = "none"
    /\ files = <<>>
    /\ script_dir = "none"
    /\ printed = {}
    /\ asked = <<>>
    /\ runs = 0

\* The variables of the C++ programs.
cppvars == <<variant, win32, report, pc, limit_result, i, answer_code, addr,
             return_code, socket, fld, result, ret, fds, calls, hist,
             threads, ptab, alone, foreign>>

vars == <<variant, win32, report, pc, limit_result, i, answer_code, addr,
          return_code, socket, fld, result, ret, fds, calls, hist, tvars>>

-----------------------------------------------------------------------------
(* Program constants *)

AC_OK == 0
AC_WRONG_PROTOCOL == 1

RF_REPORT_NAME == 0
RF_REPORT_TEXT == 1
RF_SENDER_NAME == 2
RF_SENDER_EMAIL == 3
RF_GAME_NAME == 4
RF_GAME_VERSION == 5

RFL_REPORT_NAME_BYTES == 100
RFL_REPORT_TEXT_BYTES == 5120
RFL_SENDER_NAME_BYTES == 100
RFL_SENDER_EMAIL_BYTES == 100
RFL_GAME_NAME_BYTES == 100
RFL_GAME_VERSION_BYTES == 100

REPORTER_PROTOCOL == 0
RETRY_CONNECT_COUNT == 5
SOCKET_ERROR == -1
INVALID_SOCKET == -1

\* sizeof (unsigned short): the size of ver, len and answer_code
SizeofUShort == 2
\* sizeof (int): the size of answer_code in reporter_connectors
SizeofInt == 4

-----------------------------------------------------------------------------
(* Bounds of the model *)

\* a field is drawn up to this many bytes over its limit
MaxOver == 1
\* the collector replies an answer code in 0..MaxAnswer
MaxAnswer == 2

-----------------------------------------------------------------------------
(* The report *)

Fields == RF_REPORT_NAME .. RF_GAME_VERSION

\* The struct's fields in declaration order.
GameReport == [Fields -> Nat]

\* The report main() builds: the UTF-8 sizes of its six string literals.
MainReport ==
    (RF_REPORT_NAME :> 32) @@ (RF_REPORT_TEXT :> 84) @@ (RF_SENDER_NAME :> 18) @@
    (RF_SENDER_EMAIL :> 18) @@ (RF_GAME_NAME :> 8) @@ (RF_GAME_VERSION :> 6)

\* REPORT_FIELD_LIMIT, by field.
FieldLimit(f) ==
    CASE f = RF_REPORT_NAME -> RFL_REPORT_NAME_BYTES
      [] f = RF_REPORT_TEXT -> RFL_REPORT_TEXT_BYTES
      [] f = RF_SENDER_NAME -> RFL_SENDER_NAME_BYTES
      [] f = RF_SENDER_EMAIL -> RFL_SENDER_EMAIL_BYTES
      [] f = RF_GAME_NAME -> RFL_GAME_NAME_BYTES
      [] f = RF_GAME_VERSION -> RFL_GAME_VERSION_BYTES

\* The byte at position k (1-based) of the text of field f.
TextByte(f, k) == (37 * (f + 1) + k) % 256

\* std::string of field f of report r, as bytes.
Text(r, f) == [k \in 1 .. r[f] |-> TextByte(f, k)]

\* A faulty variant of check_fields_limit: a length equal to the limit is rejected.
check_fields_limit_inclusive(r) ==
    IF r[RF_REPORT_NAME] >= RFL_REPORT_NAME_BYTES THEN {RF_REPORT_NAME}
    ELSE IF r[RF_REPORT_TEXT] >= RFL_REPORT_TEXT_BYTES THEN {RF_REPORT_TEXT}
    ELSE IF r[RF_SENDER_NAME] >= RFL_SENDER_NAME_BYTES THEN {RF_SENDER_NAME}
    ELSE IF r[RF_SENDER_EMAIL] >= RFL_SENDER_EMAIL_BYTES THEN {RF_SENDER_EMAIL}
    ELSE IF r[RF_GAME_NAME] >= RFL_GAME_NAME_BYTES THEN {RF_GAME_NAME}
    ELSE IF r[RF_GAME_VERSION] >= RFL_GAME_VERSION_BYTES THEN {RF_GAME_VERSION}
    ELSE {}

\* check_fields_limit: {} (no value) or the field that is too long.
check_fields_limit(r) ==
    IF r[RF_REPORT_NAME] > RFL_REPORT_NAME_BYTES THEN {RF_REPORT_NAME}
    ELSE IF r[RF_REPORT_TEXT] > RFL_REPORT_TEXT_BYTES THEN {RF_REPORT_TEXT}
    ELSE IF r[RF_SENDER_NAME] > RFL_SENDER_NAME_BYTES THEN {RF_SENDER_NAME}
    ELSE IF r[RF_SENDER_EMAIL] > RFL_SENDER_EMAIL_BYTES THEN {RF_SENDER_EMAIL}
    ELSE IF r[RF_SENDER_EMAIL] > RFL_SENDER_EMAIL_BYTES THEN {RF_SENDER_EMAIL}
    ELSE IF r[RF_GAME_NAME] > RFL_GAME_NAME_BYTES THEN {RF_GAME_NAME}
    ELSE IF r[RF_GAME_VERSION] > RFL_GAME_VERSION_BYTES THEN {RF_GAME_VERSION}
    ELSE {}

-----------------------------------------------------------------------------
(* The wire codec's conversions and the operating system's side of the calls *)

\* The object representation of an unsigned short v: its 2 bytes, low byte first.
U16(v) == <<v % 256, (v \div 256) % 256>>

\* The unsigned short whose object representation is the 2 bytes b.
FromU16(b) == b[1] + 256 * b[2]

\* unsigned short len = text.size(): the conversion of a size to 16 bits.
ToUShort(n) == n % 65536

\* The buffer a send call is given: an unsigned short, or the text of a field.
BufU16(v) == [kind |-> "u16", v |-> v]
BufText(f) == [kind |-> "text", v |-> f]
BufBytes(b) == IF b.kind = "u16" THEN U16(b.v) ELSE Text(report, b.v)

\* What a send or recv of req bytes may return other than req: SOCKET_ERROR,
\* or fewer bytes.  (The code stores it in a size_t, where SOCKET_ERROR is the
\* largest value: it differs from req like every other short count.)
ShortCounts(req) == {SOCKET_ERROR} \cup {k \in {0, 1, req - 1} : 0 <= k /\ k < req}

\* A descriptor as socket() creates it; nodelay: set_socket_nodelay was
\* called on it.
NewFd == [open |-> TRUE, connected |-> FALSE, nodelay |-> FALSE, shut |-> FALSE,
          wire |-> <<>>, rcvd |-> 0]

ValidFd(s) == s \in DOMAIN fds

\* send(s, buf, req, 0) that transferred `sent`: the call is recorded on the descriptor.
Sent(s, buf, req, sent) ==
    IF ValidFd(s)
    THEN [fds EXCEPT ![s].wire = Append(@, [buf |-> buf, req |-> req, sent |-> sent])]
    ELSE fds

Call(name) == [calls EXCEPT ![name] = @ + 1]

CallNames == {"WSAStartup", "WSACleanup", "spawn", "getaddrinfo", "freeaddrinfo",
              "socket", "connect", "setsockopt", "send", "recv", "shutdown",
              "close", "sleep"}

\* The results of send_report: a string (an error message, named by the call
\* that failed) or an ANSWER_CODE.
ErrorResult(at) == [kind |-> "error", at |-> at]
AnswerResult(c) == [kind |-> "answer", code |-> c]
NoResult == [kind |-> "none"]

-----------------------------------------------------------------------------
(* Initial states *)

\* The lengths a field is drawn from: empty, as in main(), at its limit, over
\* it, and beyond what an unsigned short holds.
FieldLens(f) ==
    {0, MainReport[f], FieldLimit(f), 65536 + MainReport[f]}
        \cup (FieldLimit(f) + 1 .. FieldLimit(f) + MaxOver)

AllReports ==
    { (RF_REPORT_NAME :> a) @@ (RF_REPORT_TEXT :> b) @@ (RF_SENDER_NAME :> c) @@
      (RF_SENDER_EMAIL :> d) @@ (RF_GAME_NAME :> e) @@ (RF_GAME_VERSION :> g) :
        a \in FieldLens(RF_REPORT_NAME), b \in FieldLens(RF_REPORT_TEXT),
        c \in FieldLens(RF_SENDER_NAME), d \in FieldLens(RF_SENDER_EMAIL),
        e \in FieldLens(RF_GAME_NAME), g \in FieldLens(RF_GAME_VERSION) }

\* The reports the delivery is explored with: main()'s report, main()'s
\* report with one of its fields replaced, and the report of six empty
\* fields.
Reports ==
    {r \in AllReports : \E f \in Fields : \A g \in Fields \ {f} : r[g] = MainReport[g]}
        \cup {[f \in Fields |-> 0]}

InitOne ==
    /\ win32 \in BOOLEAN
    /\ pc = IF variant = "connector" THEN "check_fields" ELSE "S_send_report"
    /\ limit_result = {}
    /\ i = 0
    /\ answer_code = 0
    /\ addr = "null"
    /\ return_code = 0
    /\ socket = INVALID_SOCKET
    /\ fld = RF_REPORT_NAME
    /\ result = NoResult
    /\ ret = {}
    /\ fds = <<>>
    /\ calls = [n \in CallNames |-> 0]
    /\ hist = [started |-> FALSE, refused |-> 0, accepted |-> 0,
               refusedAfterAccept |-> FALSE, short |-> FALSE,
               lastReply |-> {}, sameReplies |-> TRUE,
               optFailed |-> FALSE, errno |-> 0, connectErrno |-> 0]

\* One call at a time: no concurrent calls are running.
InitRun ==
    /\ InitOne
    /\ threads = <<>>
    /\ ptab = <<>>
    /\ alone = <<>>
    /\ foreign = FALSE
    /\ NoScene
    /\ NoInstaller

Init ==
    /\ variant \in {"connector", "connectors"}
    /\ report \in Reports
    /\ InitRun

-----------------------------------------------------------------------------
(* src/reporter_connector/main.cpp: reporter() *)

\* A faulty variant of R_CheckFields: the result of the check is not acted on.
R_CheckFields_ignored ==
    /\ pc = "check_fields"
    /\ limit_result' = check_fields_limit(report)
    /\ ret' = ret
    /\ pc' = "start_reporter"
    /\ UNCHANGED <<tvars, variant, win32, report, i, answer_code, addr, return_code,
                   socket, fld, result, fds, calls, hist>>

\* A faulty variant of R_CheckFields: the check cuts every field down to its
\* limit.
R_CheckFields_cut ==
    /\ pc = "check_fields"
    /\ limit_result' = check_fields_limit(report)
    /\ report' = [f \in Fields |-> IF report[f] > FieldLimit(f) THEN FieldLimit(f)
                                                               ELSE report[f]]
    /\ IF limit_result' # {}
       THEN /\ ret' = {-2}
            /\ pc' = "done"
       ELSE /\ ret' = ret
            /\ pc' = "start_reporter"
    /\ UNCHANGED <<tvars, variant, win32, i, answer_code, addr, return_code,
                   socket, fld, result, fds, calls, hist>>

\* reporter(): check_fields_limit(report); a field that is too long ends the
\* call with -2.
R_CheckFields ==
    /\ pc = "check_fields"
    /\ limit_result' = check_fields_limit(report)
    /\ IF limit_result' # {}
       THEN /\ ret' = {-2}
            /\ pc' = "done"
       ELSE /\ ret' = ret
            /\ pc' = "start_reporter"
    /\ UNCHANGED <<tvars, variant, win32, report, i, answer_code, addr, return_code,
                   socket, fld, result, fds, calls, hist>>

\* What start_reporter() may meet: the binary is missing, spawning it fails,
\* or it is spawned.
StartOutcomes == {"missing", "spawn_failed", "spawned"}

\* A faulty variant of R_StartReporter: the report is sent whatever
\* start_reporter() returned.
R_StartReporter_ignored ==
    /\ pc = "start_reporter"
    /\ \E o \in StartOutcomes :
        IF o = "spawned"
        THEN /\ calls' = [calls EXCEPT !["spawn"] = @ + 1, !["sleep"] = @ + 1]
             /\ hist' = [hist EXCEPT !.started = TRUE]
             /\ ret' = ret
             /\ pc' = "send_report"
        ELSE /\ calls' = IF o = "spawn_failed" THEN Call("spawn") ELSE calls
             /\ hist' = hist
             /\ ret' = ret
             /\ pc' = "send_report"
    /\ UNCHANGED <<tvars, variant, win32, report, limit_result, i, answer_code, addr,
                   return_code, socket, fld, result, fds>>

\* reporter(): start_reporter(); an error message ends the call with -1,
\* otherwise the collector was spawned and the caller slept SLEEP_TIME_MS.
R_StartReporter ==
    /\ pc = "start_reporter"
    /\ \E o \in StartOutcomes :
        IF o = "spawned"
        THEN /\ calls' = [calls EXCEPT !["spawn"] = @ + 1, !["sleep"] = @ + 1]
             /\ hist' = [hist EXCEPT !.started = TRUE]
             /\ ret' = ret
             /\ pc' = "send_report"
        ELSE /\ calls' = IF o = "spawn_failed" THEN Call("spawn") ELSE calls
             /\ hist' = hist
             /\ ret' = {-1}
             /\ pc' = "done"
    /\ UNCHANGED <<tvars, variant, win32, report, limit_result, i, answer_code, addr,
                   return_code, socket, fld, result, fds>>

\* A faulty variant of R_Result: only AC_OK counts as an answer.
R_Result_only_ok ==
    /\ pc = "returned"
    /\ ret' = IF result = AnswerResult(AC_OK) THEN {result.code} ELSE {-1}
    /\ pc' = "done"
    /\ UNCHANGED <<tvars, variant, win32, report, limit_result, i, answer_code, addr,
                   return_code, socket, fld, result, fds, calls, hist>>

\* reporter(): the result of send_report becomes the return value: the
\* answer code, or -1 for an error message.
R_Result ==
    /\ pc = "returned"
    /\ ret' = IF result.kind = "answer" THEN {result.code} ELSE {-1}
    /\ pc' = "done"
    /\ UNCHANGED <<tvars, variant, win32, report, limit_result, i, answer_code, addr,
                   return_code, socket, fld, result, fds, calls, hist>>

-----------------------------------------------------------------------------
(* src/reporter_connector/main.cpp: send_report() *)

\* send_report is entered: answer_code = 0 and the for loop's i = 0.
R_SendReport ==
    /\ pc = "send_report"
    /\ answer_code' = 0
    /\ i' = 0
    /\ pc' = "for"
    /\ UNCHANGED <<tvars, variant, win32, report, limit_result, addr, return_code,
                   socket, fld, result, ret, fds, calls, hist>>

\* static_cast<ANSWER_CODE>(v) of an unsigned short v.  ANSWER_CODE has no
\* fixed underlying type and its enumerators are 0 and 1, so its values are
\* 0..1: for any other v the behaviour is undefined, and a build keeps v or
\* keeps only the one bit the enumeration needs.
StaticCastAnswerCode(v) ==
    IF v \in {AC_OK, AC_WRONG_PROTOCOL} THEN {v} ELSE {v, v % 2}

\* A faulty variant of R_For: the loop admits one iteration more.
R_For_one_more ==
    /\ pc = "for"
    /\ IF i <= RETRY_CONNECT_COUNT
       THEN /\ pc' = IF win32 THEN "WSAStartup" ELSE "getaddrinfo"
            /\ result' = result
       ELSE /\ pc' = "returned"
            /\ result' \in {AnswerResult(c) : c \in StaticCastAnswerCode(answer_code)}
    /\ UNCHANGED <<tvars, variant, win32, report, limit_result, i, answer_code, addr,
                   return_code, socket, fld, ret, fds, calls, hist>>

\* for (...; i < RETRY_CONNECT_COUNT; ...): the body is entered, or the loop
\* is left and answer_code is returned.
R_For ==
    /\ pc = "for"
    /\ IF i < RETRY_CONNECT_COUNT
       THEN /\ pc' = IF win32 THEN "WSAStartup" ELSE "getaddrinfo"
            /\ result' = result
       ELSE /\ pc' = "returned"
            /\ result' \in {AnswerResult(c) : c \in StaticCastAnswerCode(answer_code)}
    /\ UNCHANGED <<tvars, variant, win32, report, limit_result, i, answer_code, addr,
                   return_code, socket, fld, ret, fds, calls, hist>>

\* WSAStartup(MAKEWORD(2, 2), &WSAData), in the _WIN32 build.
R_WSAStartup ==
    /\ pc = "WSAStartup"
    /\ calls' = Call("WSAStartup")
    /\ pc' = "getaddrinfo"
    /\ UNCHANGED <<tvars, variant, win32, report, limit_result, i, answer_code, addr,
                   return_code, socket, fld, result, ret, fds, hist>>

\* What getaddrinfo may return: 0, or an error code (one stands for all).
GetAddrInfoCodes == {0, 1}

\* A faulty variant of R_GetAddrInfo: a failed resolution is tried again in
\* the next iteration.
R_GetAddrInfo_retry ==
    /\ pc = "getaddrinfo"
    /\ calls' = Call("getaddrinfo")
    /\ \E rc \in GetAddrInfoCodes :
        /\ return_code' = rc
        /\ IF rc # 0
           THEN /\ addr' = "null"
                /\ i' = i + 1
                /\ pc' = "for"
           ELSE /\ addr' = "alloc"
                /\ i' = i
                /\ pc' = "socket"
    /\ UNCHANGED <<tvars, variant, win32, report, limit_result, answer_code,
                   socket, fld, ret, fds, hist, result>>

\* getaddrinfo(...): a code other than 0 is returned to the caller at once.
R_GetAddrInfo ==
    /\ pc = "getaddrinfo"
    /\ calls' = Call("getaddrinfo")
    /\ \E rc \in GetAddrInfoCodes :
        /\ return_code' = rc
        /\ IF rc # 0
           THEN /\ addr' = "null"
                /\ result' = ErrorResult("getaddrinfo")
                /\ pc' = "returned"
           ELSE /\ addr' = "alloc"
                /\ result' = result
                /\ pc' = "socket"
    /\ UNCHANGED <<tvars, variant, win32, report, limit_result, i, answer_code,
                   socket, fld, ret, fds, hist>>

\* ::socket(AF_INET, SOCK_STREAM, 0): a new descriptor, or INVALID_SOCKET.
R_Socket ==
    /\ pc = "socket"
    /\ calls' = Call("socket")
    /\ \E ok \in BOOLEAN :
        IF ok
        THEN /\ fds' = Append(fds, NewFd)
             /\ socket' = Len(fds) + 1
        ELSE /\ fds' = fds
             /\ socket' = INVALID_SOCKET
    /\ pc' = "connect"
    /\ UNCHANGED <<tvars, variant, win32, report, limit_result, i, answer_code, addr,
                   return_code, fld, result, ret, hist>>

\* What connect may return on descriptor s: on a descriptor socket() did not
\* create only SOCKET_ERROR; otherwise the collector accepts (0) or not.
ConnectCodes(s) == IF ValidFd(s) THEN {0, SOCKET_ERROR} ELSE {SOCKET_ERROR}

\* The platform error code a failed connect on descriptor s leaves in errno
\* (WSAGetLastError): ECONNREFUSED, or EBADF for a descriptor socket() did
\* not create.
ConnectErrno(s) == IF ValidFd(s) THEN 111 ELSE 9

\* The environment's record of a connect that returned rc.  errno is
\* followed from a failed connect to the place where the code reads it, 0
\* otherwise; connectErrno is the code the last connect call produced.
\* optFailed is about the connection being made.
Connected(rc) ==
    IF rc = 0
    THEN [hist EXCEPT !.accepted = @ + 1, !.optFailed = FALSE,
                      !.errno = 0, !.connectErrno = 0]
    ELSE [hist EXCEPT !.refused = @ + 1,
                      !.refusedAfterAccept = @ \/ hist.accepted > 0,
                      !.optFailed = FALSE,
                      !.errno = ConnectErrno(socket),
                      !.connectErrno = ConnectErrno(socket)]

\* What errno may hold after freeaddrinfo when it held e before: a library
\* call that succeeds may leave errno alone or store a code of its own
\* (here ENOMEM).
FreeAddrInfoErrnos(e) == IF e = 0 THEN {0} ELSE {e, 12}

\* A faulty variant of R_Connect: after a failed connect the address list
\* is not released.
R_Connect_leak ==
    /\ pc = "connect"
    /\ calls' = Call("connect")
    /\ \E rc \in ConnectCodes(socket) :
        /\ return_code' = rc
        /\ hist' = Connected(rc)
        /\ fds' = IF rc = 0 THEN [fds EXCEPT ![socket].connected = TRUE] ELSE fds
        /\ pc' = IF rc = 0 THEN "freeaddrinfo" ELSE "if_connect"
    /\ UNCHANGED <<tvars, variant, win32, report, limit_result, i, answer_code, addr,
                   socket, fld, result, ret>>

\* return_code = connect(socket, addr_info_result->ai_addr, ...).
R_Connect ==
    /\ pc = "connect"
    /\ calls' = Call("connect")
    /\ \E rc \in ConnectCodes(socket) :
        /\ return_code' = rc
        /\ hist' = Connected(rc)
        /\ fds' = IF rc = 0 THEN [fds EXCEPT ![socket].connected = TRUE] ELSE fds
    /\ pc' = "freeaddrinfo"
    /\ UNCHANGED <<tvars, variant, win32, report, limit_result, i, answer_code, addr,
                   socket, fld, result, ret>>

\* freeaddrinfo(addr_info_result).
R_FreeAddrInfo ==
    /\ pc = "freeaddrinfo"
    /\ calls' = Call("freeaddrinfo")
    /\ addr' = "freed"
    /\ \E e \in FreeAddrInfoErrnos(hist.errno) : hist' = [hist EXCEPT !.errno = e]
    /\ pc' = "if_connect"
    /\ UNCHANGED <<tvars, variant, win32, report, limit_result, i, answer_code,
                   return_code, socket, fld, result, ret, fds>>

\* A faulty variant of R_IfConnect: a failed connect is not retried.
R_IfConnect_noretry ==
    /\ pc = "if_connect"
    /\ IF return_code = SOCKET_ERROR
       THEN /\ result' = ErrorResult("connect")
            /\ pc' = "returned"
       ELSE /\ pc' = "set_socket_nodelay"
            /\ result' = result
    /\ UNCHANGED <<tvars, variant, win32, report, limit_result, i, answer_code, addr,
                   return_code, socket, fld, ret, fds, calls, hist>>

\* A faulty variant of R_IfConnect: the error is returned one attempt early.
R_IfConnect_early ==
    /\ pc = "if_connect"
    /\ IF return_code = SOCKET_ERROR
       THEN IF i = RETRY_CONNECT_COUNT - 2
            THEN /\ result' = ErrorResult("connect")
                 /\ pc' = "returned"
                 /\ UNCHANGED <<i, calls>>
            ELSE /\ calls' = Call("sleep")
                 /\ i' = i + 1
                 /\ pc' = "for"
                 /\ UNCHANGED result
       ELSE /\ pc' = "set_socket_nodelay"
            /\ UNCHANGED <<i, calls, result>>
    /\ UNCHANGED <<tvars, variant, win32, report, limit_result, answer_code, addr,
                   return_code, socket, fld, ret, fds, hist>>

\* if ( return_code == SOCKET_ERROR ): after the last permitted attempt
\* return_code = get_last_error() and the error is returned, otherwise the thread sleeps SLEEP_TIME_MS and the loop
\* continues; a connected socket goes on to set_socket_nodelay.
R_IfConnect ==
    /\ pc = "if_connect"
    /\ IF return_code = SOCKET_ERROR
       THEN IF i = RETRY_CONNECT_COUNT - 1
            THEN /\ return_code' = hist.errno
                 /\ result' = ErrorResult("connect")
                 /\ pc' = "returned"
                 /\ UNCHANGED <<i, calls, hist>>
            ELSE /\ calls' = Call("sleep")
                 /\ hist' = [hist EXCEPT !.errno = 0, !.connectErrno = 0]
                 /\ i' = i + 1
                 /\ pc' = "for"
                 /\ UNCHANGED <<result, return_code>>
       ELSE /\ pc' = "set_socket_nodelay"
            /\ UNCHANGED <<i, calls, result, return_code, hist>>
    /\ UNCHANGED <<tvars, variant, win32, report, limit_result, answer_code, addr,
                   socket, fld, ret, fds>>

\* What setsockopt may return: 0, or SOCKET_ERROR when the option was not
\* set.
SetSockOptCodes == {0, SOCKET_ERROR}

\* A faulty variant of R_SetSocketNodelay: a failed setsockopt ends the
\* operation with an error message.
R_SetSocketNodelay_checked ==
    /\ pc = "set_socket_nodelay"
    /\ calls' = Call("setsockopt")
    /\ fds' = [fds EXCEPT ![socket].nodelay = TRUE]
    /\ \E rc \in SetSockOptCodes :
        /\ hist' = [hist EXCEPT !.optFailed = (rc # 0)]
        /\ IF rc # 0
           THEN /\ result' = ErrorResult("setsockopt")
                /\ pc' = "returned"
           ELSE /\ result' = result
                /\ pc' = "send_protocol_version"
    /\ UNCHANGED <<tvars, variant, win32, report, limit_result, i, answer_code, addr,
                   return_code, socket, fld, ret>>

\* set_socket_nodelay(socket): setsockopt(socket, IPPROTO_TCP, TCP_NODELAY, ...);
\* what setsockopt returns is not looked at.
R_SetSocketNodelay ==
    /\ pc = "set_socket_nodelay"
    /\ calls' = Call("setsockopt")
    /\ fds' = [fds EXCEPT ![socket].nodelay = TRUE]
    /\ \E rc \in SetSockOptCodes : hist' = [hist EXCEPT !.optFailed = (rc # 0)]
    /\ pc' = "send_protocol_version"
    /\ UNCHANGED <<tvars, variant, win32, report, limit_result, i, answer_code, addr,
                   return_code, socket, fld, result, ret>>

\* A faulty variant of R_SendDataError: a failed send_data is retried on a
\* new connection.
R_SendDataError_retry ==
    /\ result' = result
    /\ i' = i + 1
    /\ pc' = "for"

\* if ( result.has_value() ) return result.value(): send_report returns the
\* message send_data gave.
R_SendDataError ==
    /\ result' = ErrorResult("send")
    /\ i' = i
    /\ pc' = "returned"

\* The environment's record of a send or recv that transferred n of req bytes.
Transferred(req, n) == [hist EXCEPT !.short = @ \/ n # req]

\* send_protocol_version: send(socket, &ver, sizeof (ver), 0); any other
\* count than sizeof (ver) is an error message.
R_SendProtocolVersion ==
    /\ pc = "send_protocol_version"
    /\ calls' = Call("send")
    /\ \E sent_bytes \in {SizeofUShort} \cup ShortCounts(SizeofUShort) :
        /\ fds' = Sent(socket, BufU16(REPORTER_PROTOCOL), SizeofUShort, sent_bytes)
        /\ hist' = Transferred(SizeofUShort, sent_bytes)
        /\ IF sent_bytes # SizeofUShort
           THEN /\ R_SendDataError
                /\ fld' = fld
           ELSE /\ pc' = "send_string"
                /\ fld' = RF_REPORT_NAME
                /\ UNCHANGED <<i, result>>
    /\ UNCHANGED <<tvars, variant, win32, report, limit_result, answer_code, addr,
                   return_code, socket, ret>>

\* send_string(socket, text) for the field fld: send(socket, &len,
\* sizeof (len), 0) with len = text.size(); any other count than sizeof (len)
\* is an error message.  send_data goes through the six fields in order.
R_SendString ==
    /\ pc = "send_string"
    /\ calls' = Call("send")
    /\ \E sent_bytes \in {SizeofUShort} \cup ShortCounts(SizeofUShort) :
        /\ fds' = Sent(socket, BufU16(ToUShort(report[fld])), SizeofUShort, sent_bytes)
        /\ hist' = Transferred(SizeofUShort, sent_bytes)
        /\ IF sent_bytes # SizeofUShort
           THEN /\ R_SendDataError
                /\ fld' = fld
           ELSE /\ pc' = IF fld = RF_GAME_VERSION THEN "recv" ELSE "send_string"
                /\ fld' = IF fld = RF_GAME_VERSION THEN fld ELSE fld + 1
                /\ UNCHANGED <<i, result>>
    /\ UNCHANGED <<tvars, variant, win32, report, limit_result, answer_code, addr,
                   return_code, socket, ret>>

\* The first n bytes of b (none when n is SOCKET_ERROR).
Prefix(b, n) == SubSeq(b, 1, IF n < 0 THEN 0 ELSE IF n > Len(b) THEN Len(b) ELSE n)

\* The bytes of an object after b was stored at its start.
Overwrite(old, b) == [k \in 1 .. Len(old) |-> IF k <= Len(b) THEN b[k] ELSE old[k]]

\* The answer codes the collector may reply.
ReplyCodes == 0 .. MaxAnswer

\* What the collector writes as its reply: the answer code as 2 bytes, or
\* the answer code as a 4-byte integer.
CollectorReplies == {U16(c) : c \in ReplyCodes} \cup {U16(c) \o <<0, 0>> : c \in ReplyCodes}

\* What recv of req bytes may return when the peer wrote `reply`.
RecvCounts(req, reply) ==
    LET n == IF req < Len(reply) THEN req ELSE Len(reply)
    IN  {n} \cup ShortCounts(n)

\* The environment's record of a recv of req bytes that returned n bytes of `reply`.
Replied(req, n, reply) ==
    IF n # req
    THEN Transferred(req, n)
    ELSE [hist EXCEPT !.lastReply = {FromU16(reply)},
                      !.sameReplies = @ /\ hist.lastReply \in {{}, {FromU16(reply)}}]

\* A faulty variant of R_Recv: the number of bytes received is not looked at
\* and the connection is finished whatever arrived.
R_Recv_unchecked ==
    /\ pc = "recv"
    /\ calls' = Call("recv")
    /\ \E reply \in CollectorReplies :
       \E received_count \in RecvCounts(SizeofUShort, reply) :
        /\ answer_code' = FromU16(Overwrite(U16(answer_code), Prefix(reply, received_count)))
        /\ fds' = [fds EXCEPT ![socket].rcvd = @ + Len(Prefix(reply, received_count))]
        /\ hist' = Replied(SizeofUShort, received_count, reply)
        /\ result' = result
        /\ pc' = "shutdown"
    /\ UNCHANGED <<tvars, variant, win32, report, limit_result, i, addr, return_code,
                   socket, fld, ret>>

\* recv(socket, &answer_code, sizeof (answer_code), 0): what arrives is
\* stored in answer_code; any other count than sizeof (answer_code) is an
\* error message.
R_Recv ==
    /\ pc = "recv"
    /\ calls' = Call("recv")
    /\ \E reply \in CollectorReplies :
       \E received_count \in RecvCounts(SizeofUShort, reply) :
        /\ answer_code' = FromU16(Overwrite(U16(answer_code), Prefix(reply, received_count)))
        /\ fds' = [fds EXCEPT ![socket].rcvd = @ + Len(Prefix(reply, received_count))]
        /\ hist' = Replied(SizeofUShort, received_count, reply)
        /\ IF received_count # SizeofUShort
           THEN /\ result' = ErrorResult("recv")
                /\ pc' = "returned"
           ELSE /\ result' = result
                /\ pc' = "shutdown"
    /\ UNCHANGED <<tvars, variant, win32, report, limit_result, i, addr, return_code,
                   socket, fld, ret>>

\* shutdown(socket, SD_SEND).
R_Shutdown ==
    /\ pc = "shutdown"
    /\ calls' = Call("shutdown")
    /\ fds' = [fds EXCEPT ![socket].shut = TRUE]
    /\ pc' = "close_socket"
    /\ UNCHANGED <<tvars, variant, win32, report, limit_result, i, answer_code, addr,
                   return_code, socket, fld, result, ret, hist>>

\* close_socket(socket); in the __linux__ build the loop body ends here.
R_CloseSocket ==
    /\ pc = "close_socket"
    /\ calls' = Call("close")
    /\ fds' = [fds EXCEPT ![socket].open = FALSE]
    /\ pc' = IF win32 THEN "WSACleanup" ELSE "for"
    /\ i' = IF win32 THEN i ELSE i + 1
    /\ UNCHANGED <<tvars, variant, win32, report, limit_result, answer_code, addr,
                   return_code, socket, fld, result, ret, hist>>

\* WSACleanup(), in the _WIN32 build; the loop body ends here.
R_WSACleanup ==
    /\ pc = "WSACleanup"
    /\ calls' = Call("WSACleanup")
    /\ pc' = "for"
    /\ i' = i + 1
    /\ UNCHANGED <<tvars, variant, win32, report, limit_result, answer_code, addr,
                   return_code, socket, fld, result, ret, fds, hist>>

-----------------------------------------------------------------------------
(* src/reporter_connectors/main.cpp: send_report(), called by main() *)

\* The object representation of a non-negative int v: 4 bytes, low byte first.
I32(v) == <<v % 256, (v \div 256) % 256, (v \div 65536) % 256, (v \div 16777216) % 256>>

\* The int whose object representation is the 4 bytes b.
FromI32(b) == b[1] + 256 * b[2] + 65536 * b[3] + 16777216 * b[4]

\* The result of this send_report: an error message, or no value.
EmptyResult == [kind |-> "empty"]

\* send_report is entered; WSAStartup(MAKEWORD(2, 2), &WSAData) in the
\* _WIN32 build.
S_SendReport ==
    /\ pc = "S_send_report"
    /\ calls' = IF win32 THEN Call("WSAStartup") ELSE calls
    /\ pc' = "S_getaddrinfo"
    /\ UNCHANGED <<tvars, variant, win32, report, limit_result, i, answer_code, addr,
                   return_code, socket, fld, result, ret, fds, hist>>

\* getaddrinfo(...): a code other than 0 is returned to the caller.
S_GetAddrInfo ==
    /\ pc = "S_getaddrinfo"
    /\ calls' = Call("getaddrinfo")
    /\ \E rc \in GetAddrInfoCodes :
        /\ return_code' = rc
        /\ IF rc # 0
           THEN /\ addr' = "null"
                /\ result' = ErrorResult("getaddrinfo")
                /\ pc' = "done"
           ELSE /\ addr' = "alloc"
                /\ result' = result
                /\ pc' = "S_socket"
    /\ UNCHANGED <<tvars, variant, win32, report, limit_result, i, answer_code,
                   socket, fld, ret, fds, hist>>

\* ::socket(AF_INET, SOCK_STREAM, 0): a new descriptor, or INVALID_SOCKET.
S_Socket ==
    /\ pc = "S_socket"
    /\ calls' = Call("socket")
    /\ \E ok \in BOOLEAN :
        IF ok
        THEN /\ fds' = Append(fds, NewFd)
             /\ socket' = Len(fds) + 1
        ELSE /\ fds' = fds
             /\ socket' = INVALID_SOCKET
    /\ pc' = "S_connect"
    /\ UNCHANGED <<tvars, variant, win32, report, limit_result, i, answer_code, addr,
                   return_code, fld, result, ret, hist>>

\* return_code = connect(socket, addr_info_result->ai_addr, ...).
S_Connect ==
    /\ pc = "S_connect"
    /\ calls' = Call("connect")
    /\ \E rc \in ConnectCodes(socket) :
        /\ return_code' = rc
        /\ hist' = Connected(rc)
        /\ fds' = IF rc = 0 THEN [fds EXCEPT ![socket].connected = TRUE] ELSE fds
    /\ pc' = "S_freeaddrinfo"
    /\ UNCHANGED <<tvars, variant, win32, report, limit_result, i, answer_code, addr,
                   socket, fld, result, ret>>

\* freeaddrinfo(addr_info_result); if ( return_code == SOCKET_ERROR ) then
\* return_code = get_last_error() and the error is returned, with no second
\* attempt.
S_FreeAddrInfo ==
    /\ pc = "S_freeaddrinfo"
    /\ calls' = Call("freeaddrinfo")
    /\ addr' = "freed"
    /\ \E e \in FreeAddrInfoErrnos(hist.errno) :
        /\ hist' = [hist EXCEPT !.errno = e]
        /\ IF return_code = SOCKET_ERROR
           THEN /\ return_code' = e
                /\ result' = ErrorResult("connect")
                /\ pc' = "done"
           ELSE /\ return_code' = return_code
                /\ result' = result
                /\ pc' = "S_set_socket_nodelay"
    /\ UNCHANGED <<tvars, variant, win32, report, limit_result, i, answer_code,
                   socket, fld, ret, fds>>

\* set_socket_nodelay(socket).
S_SetSocketNodelay ==
    /\ pc = "S_set_socket_nodelay"
    /\ calls' = Call("setsockopt")
    /\ fds' = [fds EXCEPT ![socket].nodelay = TRUE]
    /\ \E rc \in SetSockOptCodes : hist' = [hist EXCEPT !.optFailed = (rc # 0)]
    /\ fld' = RF_REPORT_NAME
    /\ pc' = "S_send_len"
    /\ UNCHANGED <<tvars, variant, win32, report, limit_result, i, answer_code, addr,
                   return_code, socket, result, ret>>

\* send_data: after the field fld was sent the next field follows, and recv
\* after the last.
S_NextField ==
    /\ pc' = IF fld = RF_GAME_VERSION THEN "S_recv" ELSE "S_send_len"
    /\ fld' = IF fld = RF_GAME_VERSION THEN fld ELSE fld + 1

\* A faulty variant of S_SendLen: the text is sent whatever its length.
S_SendLen_body ==
    /\ pc = "S_send_len"
    /\ calls' = Call("send")
    /\ \E sent_bytes \in {SizeofUShort} \cup ShortCounts(SizeofUShort) :
        /\ fds' = Sent(socket, BufU16(ToUShort(report[fld])), SizeofUShort, sent_bytes)
        /\ hist' = Transferred(SizeofUShort, sent_bytes)
        /\ IF sent_bytes # SizeofUShort
           THEN /\ result' = ErrorResult("send")
                /\ pc' = "done"
                /\ fld' = fld
           ELSE /\ result' = result
                /\ pc' = "S_send_text"
                /\ fld' = fld
    /\ UNCHANGED <<tvars, variant, win32, report, limit_result, i, answer_code, addr,
                   return_code, socket, ret>>

\* send_string, first half: send(socket, &len, sizeof (len), 0) with
\* len = text.size(); a field of length 0 has no second half.
S_SendLen ==
    /\ pc = "S_send_len"
    /\ calls' = Call("send")
    /\ \E sent_bytes \in {SizeofUShort} \cup ShortCounts(SizeofUShort) :
        /\ fds' = Sent(socket, BufU16(ToUShort(report[fld])), SizeofUShort, sent_bytes)
        /\ hist' = Transferred(SizeofUShort, sent_bytes)
        /\ IF sent_bytes # SizeofUShort
           THEN /\ result' = ErrorResult("send")
                /\ pc' = "done"
                /\ fld' = fld
           ELSE /\ result' = result
                /\ IF ToUShort(report[fld]) = 0
                   THEN S_NextField
                   ELSE /\ pc' = "S_send_text"
                        /\ fld' = fld
    /\ UNCHANGED <<tvars, variant, win32, report, limit_result, i, answer_code, addr,
                   return_code, socket, ret>>

\* send_string, second half: send(socket, text.c_str(), len, 0).
S_SendText ==
    /\ pc = "S_send_text"
    /\ calls' = Call("send")
    /\ LET len == ToUShort(report[fld])
       IN  \E sent_bytes \in {len} \cup ShortCounts(len) :
            /\ fds' = Sent(socket, BufText(fld), len, sent_bytes)
            /\ hist' = Transferred(len, sent_bytes)
            /\ IF sent_bytes # len
               THEN /\ result' = ErrorResult("send")
                    /\ pc' = "done"
                    /\ fld' = fld
               ELSE /\ result' = result
                    /\ S_NextField
    /\ UNCHANGED <<tvars, variant, win32, report, limit_result, i, answer_code, addr,
                   return_code, socket, ret>>

\* int answer_code = 0; recv(socket, &answer_code, sizeof (answer_code), 0):
\* any other count than sizeof (answer_code) is an error message.
S_Recv ==
    /\ pc = "S_recv"
    /\ calls' = Call("recv")
    /\ \E reply \in CollectorReplies :
       \E received_count \in RecvCounts(SizeofInt, reply) :
        /\ answer_code' = FromI32(Overwrite(I32(0), Prefix(reply, received_count)))
        /\ fds' = [fds EXCEPT ![socket].rcvd = @ + Len(Prefix(reply, received_count))]
        /\ hist' = Replied(SizeofInt, received_count, reply)
        /\ IF received_count # SizeofInt
           THEN /\ result' = ErrorResult("recv")
                /\ pc' = "done"
           ELSE /\ result' = result
                /\ pc' = "S_shutdown"
    /\ UNCHANGED <<tvars, variant, win32, report, limit_result, i, addr, return_code,
                   socket, fld, ret>>

\* shutdown(socket, SD_SEND).
S_Shutdown ==
    /\ pc = "S_shutdown"
    /\ calls' = Call("shutdown")
    /\ fds' = [fds EXCEPT ![socket].shut = TRUE]
    /\ pc' = "S_close_socket"
    /\ UNCHANGED <<tvars, variant, win32, report, limit_result, i, answer_code, addr,
                   return_code, socket, fld, result, ret, hist>>

\* close_socket(socket).
S_CloseSocket ==
    /\ pc = "S_close_socket"
    /\ calls' = Call("close")
    /\ fds' = [fds EXCEPT ![socket].open = FALSE]
    /\ pc' = "S_return"
    /\ UNCHANGED <<tvars, variant, win32, report, limit_result, i, answer_code, addr,
                   return_code, socket, fld, result, ret, hist>>

\* WSACleanup() in the _WIN32 build; return {}.
S_Return ==
    /\ pc = "S_return"
    /\ calls' = IF win32 THEN Call("WSACleanup") ELSE calls
    /\ result' = EmptyResult
    /\ pc' = "done"
    /\ UNCHANGED <<tvars, variant, win32, report, limit_result, i, answer_code, addr,
                   return_code, socket, fld, ret, fds, hist>>

-----------------------------------------------------------------------------
(* The specification *)

Next ==
    \/ R_CheckFields
    \/ R_StartReporter
    \/ R_SendReport
    \/ R_For
    \/ R_WSAStartup
    \/ R_GetAddrInfo
    \/ R_Socket
    \/ R_Connect
    \/ R_FreeAddrInfo
    \/ R_IfConnect
    \/ R_SetSocketNodelay
    \/ R_SendProtocolVersion
    \/ R_SendString
    \/ R_Recv
    \/ R_Shutdown
    \/ R_CloseSocket
    \/ R_WSACleanup
    \/ R_Result
    \/ S_SendReport
    \/ S_GetAddrInfo
    \/ S_Socket
    \/ S_Connect
    \/ S_FreeAddrInfo
    \/ S_SetSocketNodelay
    \/ S_SendLen
    \/ S_SendText
    \/ S_Recv
    \/ S_Shutdown
    \/ S_CloseSocket
    \/ S_Return

Spec == Init /\ [][Next]_vars

\* The program is one thread and every call returns: a step that can be
\* taken is taken.
FairSpec == Init /\ [][Next]_vars /\ WF_vars(Next)

\* reporter()'s check applied to every report of AllReports.
InitLimits ==
    /\ variant = "connector"
    /\ report \in AllReports
    /\ InitRun

SpecLimits == InitLimits /\ [][R_CheckFields]_vars

-----------------------------------------------------------------------------
(* What the properties speak about *)

\* send_report has returned to its caller.
SendReportReturned == result.kind # "none"

\* The connections on which a send call was made.
WrittenConnections == {s \in DOMAIN fds : fds[s].wire # <<>>}

\* The bytes a send call put on the connection.
WriteBytes(w) == Prefix(SubSeq(BufBytes(w.buf), 1, w.req), w.sent)

RECURSIVE Flatten(_)
Flatten(ws) == IF ws = <<>> THEN <<>> ELSE WriteBytes(Head(ws)) \o Flatten(Tail(ws))

\* The byte stream written to the connection s.
WireBytes(s) == Flatten(fds[s].wire)

\* The peer of the wire format: n frames, each a 2-byte length followed by
\* that many bytes, read from the bytes b.
RECURSIVE ReadFrames(_, _)
ReadFrames(b, n) ==
    IF n = 0 THEN [ok |-> TRUE, texts |-> <<>>]
    ELSE IF Len(b) < 2 THEN [ok |-> FALSE, texts |-> <<>>]
    ELSE LET len == FromU16(SubSeq(b, 1, 2))
         IN  IF Len(b) < 2 + len THEN [ok |-> FALSE, texts |-> <<>>]
             ELSE LET tail == ReadFrames(SubSeq(b, 3 + len, Len(b)), n - 1)
                  IN  [ok |-> tail.ok, texts |-> <<SubSeq(b, 3, 2 + len)>> \o tail.texts]

\* The peer of the wire format: a 2-byte protocol version, then six frames.
PeerDecode(b) ==
    IF Len(b) < 2 THEN [ok |-> FALSE, version |-> 0, texts |-> <<>>]
    ELSE LET fr == ReadFrames(SubSeq(b, 3, Len(b)), 6)
         IN  [ok |-> fr.ok, version |-> FromU16(SubSeq(b, 1, 2)), texts |-> fr.texts]

-----------------------------------------------------------------------------
(* C1: within one send operation no connect attempt follows a connect that *)
(* succeeded, and the report is written to at most one connection.         *)
C1_NoConnectAfterSuccess ==
    /\ hist.accepted <= 1
    /\ ~hist.refusedAfterAccept
    /\ Cardinality(WrittenConnections) <= 1

(* C2: reporter_connector's send_report never makes a 6th connect attempt,  *)
(* returns the connection error only when the 5th attempt has failed, and   *)
(* when every attempt failed it returns the connection error after exactly *)
(* 5 attempts.                                                             *)
C2_FiveAttempts ==
    variant = "connector" =>
        /\ calls["connect"] <= 5
        /\ result = ErrorResult("connect") =>
              /\ calls["connect"] = 5
              /\ hist.connectErrno # 0
        /\ ( /\ SendReportReturned
             /\ hist.accepted = 0
             /\ result # ErrorResult("getaddrinfo") ) =>
              /\ result = ErrorResult("connect")
              /\ calls["connect"] = 5
              /\ hist.refused = 5

C2_Witness ==
    /\ variant = "connector"
    /\ pc = "done"
    /\ result = ErrorResult("connect")
    /\ hist.refused = 5
    /\ ret = {-1}

\* The scenario of C3 is "the collector refuses the first N < 5 connects,
\* then accepts and answers every connection"; this holds once a run has
\* left that scenario.
C3_OutsideScenario ==
    \/ variant # "connector"
    \/ limit_result # {}
    \/ pc = "done" /\ ~hist.started
    \/ result = ErrorResult("getaddrinfo")
    \/ hist.refused >= 5
    \/ hist.refusedAfterAccept
    \/ hist.short

(* C3: when the collector refuses the first N < 5 connects, then accepts   *)
(* and answers every connection, reporter_connector's operation eventually *)
(* returns an answer code, having made at most 5 connect attempts.          *)
C3_RetryThenAnswer ==
    <>( \/ C3_OutsideScenario
        \/ /\ pc = "done"
           /\ result.kind = "answer"
           /\ ret = {result.code}
           /\ calls["connect"] <= 5 )

C3_Witness ==
    /\ ~C3_OutsideScenario
    /\ pc = "done"
    /\ hist.refused = 4
    /\ result.kind = "answer"

(* C4: once a send or a recv transferred another number of bytes than      *)
(* requested, send_report has returned an error for the send or the        *)
(* receive, and no further call is made.                                   *)
C4_ShortTransferIsFinal ==
    /\ [](hist.short =>
            /\ pc \in {"returned", "done"}
            /\ result \in {ErrorResult("send"), ErrorResult("recv")})
    /\ [][hist.short => calls' = calls]_vars

C4_Witness ==
    /\ variant = "connector"
    /\ hist.short
    /\ pc = "done"
    /\ calls["connect"] < RETRY_CONNECT_COUNT
    /\ ret = {-1}

(* C5: when send_report has returned, every socket it created was          *)
(* half-closed and closed.                                                 *)
C5_AllSocketsClosed ==
    SendReportReturned =>
        \A s \in DOMAIN fds : fds[s].shut /\ ~fds[s].open

(* C6: the byte stream reporter_connector's send_data wrote, decoded by    *)
(* the peer of the wire format, gives the protocol version and the six     *)
(* field texts of the report.                                              *)
C6_RoundTrip ==
    (variant = "connector" /\ pc = "recv") =>
        LET d == PeerDecode(WireBytes(socket))
        IN  /\ d.ok
            /\ d.version = REPORTER_PROTOCOL
            /\ \A f \in Fields : d.texts[f + 1] = Text(report, f)

\* The limits as C7 states them, by field id + 1, and the fields over them.
C7_Limits == <<100, 5120, 100, 100, 100, 100>>

C7_TooLong == {f \in Fields : report[f] > C7_Limits[f + 1]}

(* C7: check_fields_limit gives no field exactly when every field is       *)
(* within its limit (100, 5120, 100, 100, 100, 100), and otherwise the     *)
(* first field, in the order of the field ids, that is over its limit.     *)
C7_FirstTooLong ==
    pc # "check_fields" =>
        IF C7_TooLong = {}
        THEN limit_result = {}
        ELSE limit_result = {CHOOSE f \in C7_TooLong : \A g \in C7_TooLong : f <= g}

C7_Witness ==
    /\ pc = "done"
    /\ report[RF_REPORT_NAME] = 100
    /\ C7_TooLong = {RF_SENDER_EMAIL, RF_GAME_VERSION}
    /\ limit_result = {RF_SENDER_EMAIL}

(* C8: with a field over its limit reporter() returns -2 and makes no call *)
(* at all: the collector is not started, no address is resolved, no socket *)
(* is created, no connect is attempted.                                    *)
C8_InvalidMakesNoCall ==
    (variant = "connector" /\ \E f \in Fields : report[f] > FieldLimit(f)) =>
        /\ pc \in {"check_fields", "done"}
        /\ pc = "done" => ret = {-2}
        /\ \A n \in CallNames : calls[n] = 0
        /\ fds = <<>>
        /\ ~hist.started

C8_Witness ==
    /\ variant = "connector"
    /\ pc = "done"
    /\ report[RF_REPORT_TEXT] = 5121
    /\ ret = {-2}
    /\ calls["spawn"] = 0

(* C9: when the collector accepted every connect and every reply was the   *)
(* answer code c, c = OK or WRONG_PROTOCOL, send_report returns the answer *)
(* c and reporter() returns c.                                             *)
C9_AnswerIsReturned ==
    \A c \in {AC_OK, AC_WRONG_PROTOCOL} :
        ( /\ variant = "connector"
          /\ pc = "done"
          /\ SendReportReturned
          /\ result # ErrorResult("getaddrinfo")
          /\ hist.refused = 0
          /\ ~hist.short
          /\ hist.lastReply = {c}
          /\ hist.sameReplies ) =>
            /\ result = AnswerResult(c)
            /\ ret = {c}

C9_Witness ==
    /\ variant = "connector"
    /\ pc = "done"
    /\ hist.refused = 0
    /\ ~hist.short
    /\ hist.sameReplies
    /\ hist.lastReply = {AC_WRONG_PROTOCOL}
    /\ ret = {AC_WRONG_PROTOCOL}

(* C10: in the _WIN32 build, when send_report has returned it has called   *)
(* WSAStartup once and WSACleanup once.                                     *)
C10_WinsockBalanced ==
    (win32 /\ SendReportReturned) =>
        /\ calls["WSAStartup"] = 1
        /\ calls["WSACleanup"] = 1

(* C11: on every connection on which anything was written, the first bytes *)
(* written are the 2-byte protocol version: no field length and no field   *)
(* body precedes it.                                                        *)
C11_VersionFirst ==
    \A s \in WrittenConnections :
        LET b == WireBytes(s)
        IN  Prefix(b, SizeofUShort) = Prefix(U16(REPORTER_PROTOCOL), Len(b))

\* The last getaddrinfo call failed: every successful one is followed by the
\* call of socket().
C12_ResolutionFailed ==
    /\ calls["getaddrinfo"] > calls["socket"]
    /\ pc \notin {"socket", "S_socket"}

(* C12: when getaddrinfo fails, in whichever iteration, send_report returns *)
(* the resolution error at once: no socket, connect, sleep or further       *)
(* resolution (no library call at all) follows.                             *)
C12_ResolutionErrorIsFinal ==
    /\ [](C12_ResolutionFailed =>
            /\ result = ErrorResult("getaddrinfo")
            /\ pc \in {"returned", "done"})
    /\ [][C12_ResolutionFailed => (calls' = calls /\ fds' = fds)]_vars

C12_Witness ==
    /\ variant = "connector"
    /\ C12_ResolutionFailed
    /\ pc = "done"
    /\ i > 0
    /\ hist.accepted > 0

(* C13: the client asks for exactly 2 bytes of reply: it never takes more   *)
(* than 2 bytes from a connection, a connection that delivered 2 bytes does *)
(* not end in a receive error and its code is decoded, and a receive error  *)
(* means that fewer than 2 bytes arrived.                                   *)
C13_TwoByteReply ==
    /\ \A s \in DOMAIN fds : fds[s].rcvd <= SizeofUShort
    /\ (ValidFd(socket) /\ fds[socket].rcvd = SizeofUShort) =>
           result # ErrorResult("recv")
    /\ result = ErrorResult("recv") =>
           (ValidFd(socket) /\ fds[socket].rcvd < SizeofUShort)
    /\ pc \in {"shutdown", "S_shutdown"} =>
           /\ fds[socket].rcvd = SizeofUShort
           /\ hist.lastReply = {answer_code}

C14_Returned == variant = "connector" /\ pc = "done"

\* The launcher or the transport reported an error.
C14_Error == ~hist.started \/ result.kind = "error"

RECURSIVE C16_Frames(_)
C16_Frames(f) ==
    IF f > RF_GAME_VERSION THEN <<>>
    ELSE U16(ToUShort(report[f])) \o Text(report, f) \o C16_Frames(f + 1)

C16_IsPrefix(a, b) == Len(a) <= Len(b) /\ SubSeq(b, 1, Len(a)) = a

(* C16: at every moment the bytes written on a connection are, after the   *)
(* protocol version if one was written, a beginning of the six fields in   *)
(* their fixed order, each written once and in full before the next.       *)
C16_FieldsInOrder ==
    \A s \in WrittenConnections :
        \/ C16_IsPrefix(WireBytes(s), C16_Frames(RF_REPORT_NAME))
        \/ C16_IsPrefix(WireBytes(s), U16(REPORTER_PROTOCOL) \o C16_Frames(RF_REPORT_NAME))

(* C18: every send operation terminates, whatever the library calls        *)
(* return: the operation reaches its end, and send_report never starts     *)
(* more than RETRY_CONNECT_COUNT iterations (each begins with a call of    *)
(* getaddrinfo).                                                           *)
C18_Terminates ==
    /\ <>(pc = "done" /\ (variant = "connector" => ret # {}))
    /\ [](i <= RETRY_CONNECT_COUNT /\ calls["getaddrinfo"] <= RETRY_CONNECT_COUNT)

C18_Witness ==
    /\ variant = "connector"
    /\ pc = "done"
    /\ calls["getaddrinfo"] = RETRY_CONNECT_COUNT
    /\ hist.refused = RETRY_CONNECT_COUNT - 1
    /\ hist.short
    /\ result = ErrorResult("recv")

C20_WrittenReportIsValid ==
    (\E s \in WrittenConnections :
        \E k \in 1 .. Len(fds[s].wire) :
            LET w == fds[s].wire[k]
            IN  /\ w.sent > 0
                /\ (variant = "connector" => k > 1)) =>
        \A f \in Fields : report[f] <= FieldLimit(f)

-----------------------------------------------------------------------------
(* Two concurrent calls of send_report of src/reporter_connector/main.cpp,  *)
(* built without _WIN32.  Every variable of send_report is a local, so each *)
(* thread has a record of its own; the process has one descriptor table,    *)
(* in which socket() takes the lowest free descriptor.                      *)

Threads == {1, 2}

\* The report each thread was given.
ThreadReport(t) ==
    IF t = 1 THEN MainReport ELSE [MainReport EXCEPT ![RF_REPORT_TEXT] = 0]

\* send_report is entered: answer_code = 0, the for loop's i = 0 and its
\* body is entered.  connects counts the thread's calls of connect.
P_SendReport(t) ==
    [pc |-> "getaddrinfo", i |-> 0, socket |-> INVALID_SOCKET, answer_code |-> 0,
     return_code |-> 0, result |-> NoResult, report |-> ThreadReport(t),
     connects |-> 0]

\* A descriptor that is not in use.
FreeSlot == [owner |-> 0]

\* The descriptor s is in use.
P_Open(tab, s) == s \in DOMAIN tab /\ tab[s].owner # 0

\* The lowest descriptor that is not in use.
P_Lowest(tab) ==
    IF \E k \in DOMAIN tab : ~P_Open(tab, k)
    THEN CHOOSE k \in DOMAIN tab :
            ~P_Open(tab, k) /\ \A j \in 1 .. (k - 1) : P_Open(tab, j)
    ELSE Len(tab) + 1

\* The table without the free descriptors at its end.
RECURSIVE P_Trim(_)
P_Trim(tab) ==
    IF tab # <<>> /\ tab[Len(tab)].owner = 0
    THEN P_Trim(SubSeq(tab, 1, Len(tab) - 1))
    ELSE tab

\* getaddrinfo(...) returned x: a code other than 0 is returned at once.
P_GetAddrInfo(l, tab, t, x) ==
    [l |-> IF x # 0
           THEN [l EXCEPT !.return_code = x, !.pc = "returned",
                          !.result = ErrorResult("getaddrinfo")]
           ELSE [l EXCEPT !.return_code = x, !.pc = "socket"],
     tab |-> tab]

\* ::socket(AF_INET, SOCK_STREAM, 0): the lowest free descriptor when x,
\* INVALID_SOCKET otherwise.
P_Socket(l, tab, t, x) ==
    IF x
    THEN LET s == P_Lowest(tab)
             e == [owner |-> t, connected |-> FALSE, wire |-> <<>>, rcvd |-> 0]
         IN  [l |-> [l EXCEPT !.socket = s, !.pc = "connect"],
              tab |-> IF s \in DOMAIN tab THEN [tab EXCEPT ![s] = e]
                                          ELSE Append(tab, e)]
    ELSE [l |-> [l EXCEPT !.socket = INVALID_SOCKET, !.pc = "connect"],
          tab |-> tab]

\* connect(socket, ...) answered by the collector with x; it fails on a
\* descriptor that is not in use or is connected already.  Then
\* freeaddrinfo and if ( return_code == SOCKET_ERROR ): after the last
\* permitted attempt the error is returned, otherwise the thread sleeps and
\* the loop continues with i++ (i stays below RETRY_CONNECT_COUNT); on a
\* connected socket set_socket_nodelay(socket) follows.
P_Connect(l, tab, t, x) ==
    LET rc == IF P_Open(tab, l.socket) /\ ~tab[l.socket].connected
              THEN x ELSE SOCKET_ERROR
        c  == [l EXCEPT !.return_code = rc, !.connects = @ + 1]
    IN  [l |-> IF rc = SOCKET_ERROR
               THEN IF l.i = RETRY_CONNECT_COUNT - 1
                    THEN [c EXCEPT !.pc = "returned", !.result = ErrorResult("connect")]
                    ELSE [c EXCEPT !.pc = "getaddrinfo", !.i = @ + 1]
               ELSE [c EXCEPT !.pc = "send_data"],
         tab |-> IF rc = 0 THEN [tab EXCEPT ![l.socket].connected = TRUE]
                           ELSE tab]

\* What send_data writes: the protocol version, then the length of each of
\* the six fields.
P_Writes(r) == <<REPORTER_PROTOCOL>> \o [k \in 1 .. Cardinality(Fields) |-> ToUShort(r[k - 1])]

\* send_data(socket, report): x of its send calls transfer in full; a send
\* on a descriptor that is not a connected socket transfers nothing.  Any
\* short send is an error message.
P_SendData(l, tab, t, x) ==
    LET all == P_Writes(l.report)
        n   == IF P_Open(tab, l.socket) /\ tab[l.socket].connected THEN x ELSE 0
    IN  [l |-> IF n = Len(all)
               THEN [l EXCEPT !.pc = "recv"]
               ELSE [l EXCEPT !.pc = "returned", !.result = ErrorResult("send")],
         tab |-> IF n > 0
                 THEN [tab EXCEPT ![l.socket].wire = @ \o SubSeq(all, 1, n)]
                 ELSE tab]

\* recv(socket, &answer_code, sizeof (answer_code), 0): the collector's
\* answer x arrives in full, or (x = SOCKET_ERROR, or a descriptor that is
\* not a connected socket) nothing arrives, which is an error message.
P_Recv(l, tab, t, x) ==
    IF P_Open(tab, l.socket) /\ tab[l.socket].connected /\ x # SOCKET_ERROR
    THEN [l |-> [l EXCEPT !.answer_code = x, !.pc = "close_socket"],
          tab |-> [tab EXCEPT ![l.socket].rcvd = @ + SizeofUShort]]
    ELSE [l |-> [l EXCEPT !.pc = "returned", !.result = ErrorResult("recv")],
          tab |-> tab]

\* The for statement after an iteration that ran to its end: i++, then the
\* body is entered again, or the loop is over and x, the converted
\* answer_code, is returned.
P_For(l, x) ==
    IF l.i + 1 < RETRY_CONNECT_COUNT
    THEN [l EXCEPT !.pc = "getaddrinfo", !.i = @ + 1]
    ELSE [l EXCEPT !.pc = "returned", !.i = @ + 1, !.result = AnswerResult(x)]

\* A faulty variant of P_CloseSocket: the highest descriptor in use is
\* closed, whichever socket it is.
P_CloseSocket_highest(l, tab, t, x) ==
    [l |-> P_For(l, x),
     tab |-> IF tab # <<>>
             THEN P_Trim([tab EXCEPT ![Len(tab)] = FreeSlot])
             ELSE tab]

\* shutdown(socket, SD_SEND) and close_socket(socket), then the for
\* statement.
P_CloseSocket(l, tab, t, x) ==
    [l |-> P_For(l, x),
     tab |-> IF P_Open(tab, l.socket)
             THEN P_Trim([tab EXCEPT ![l.socket] = FreeSlot])
             ELSE tab]

\* What the environment may answer to the call the thread is at.
P_Responses(l) ==
    CASE l.pc = "getaddrinfo" -> GetAddrInfoCodes
      [] l.pc = "socket" -> BOOLEAN
      [] l.pc = "connect" -> {0, SOCKET_ERROR}
      [] l.pc = "send_data" -> {0, Cardinality(Fields) + 1}
      [] l.pc = "recv" -> {AC_WRONG_PROTOCOL, SOCKET_ERROR}
      [] l.pc = "close_socket" -> StaticCastAnswerCode(l.answer_code)
      [] OTHER -> {0}

\* One step of send_report with the locals l on the descriptor table tab.
P_Step(l, tab, t, x) ==
    CASE l.pc = "getaddrinfo" -> P_GetAddrInfo(l, tab, t, x)
      [] l.pc = "socket" -> P_Socket(l, tab, t, x)
      [] l.pc = "connect" -> P_Connect(l, tab, t, x)
      [] l.pc = "send_data" -> P_SendData(l, tab, t, x)
      [] l.pc = "recv" -> P_Recv(l, tab, t, x)
      [] l.pc = "close_socket" -> P_CloseSocket(l, tab, t, x)

\* The call the thread is at is made on a descriptor in use by another
\* thread.
P_Foreign(l, tab, t) ==
    /\ l.pc \in {"connect", "send_data", "recv", "close_socket"}
    /\ P_Open(tab, l.socket)
    /\ tab[l.socket].owner # t

\* The thread t takes its next step in the process, and the same step with
\* the same response is taken in the replay of t alone.
P_Run(t) ==
    /\ threads[t].pc # "returned"
    /\ \E x \in P_Responses(threads[t]) :
        LET together == P_Step(threads[t], ptab, t, x)
        IN  /\ threads' = [threads EXCEPT ![t] = together.l]
            /\ ptab' = together.tab
            /\ alone' = [alone EXCEPT ![t] = P_Step(alone[t].l, alone[t].tab, t, x)]
            /\ foreign' = (foreign \/ P_Foreign(threads[t], ptab, t))
    /\ UNCHANGED <<variant, win32, report, pc, limit_result, i, answer_code,
                   addr, return_code, socket, fld, result, ret, fds, calls, hist,
                   uvars, gvars>>

\* Both threads have entered send_report; nothing else runs.
InitPar ==
    /\ variant = "connector"
    /\ report = MainReport
    /\ InitOne
    /\ win32 = FALSE
    /\ threads = [t \in Threads |-> P_SendReport(t)]
    /\ ptab = <<>>
    /\ alone = [t \in Threads |-> [l |-> P_SendReport(t), tab |-> <<>>]]
    /\ foreign = FALSE
    /\ NoScene
    /\ NoInstaller

SpecPar == InitPar /\ [][\E t \in Threads : P_Run(t)]_vars

\* What a thread can observe of its call: its locals, with the state of
\* its own socket in the place of the descriptor's number.
C15_View(l, tab, t) ==
    [l EXCEPT !.socket = IF P_Open(tab, l.socket) /\ tab[l.socket].owner = t
                         THEN tab[l.socket] ELSE FreeSlot]

C21_Exchanged(s) ==
    /\ fds[s].rcvd >= SizeofUShort
    /\ LET d == PeerDecode(WireBytes(s))
       IN  /\ d.ok
           /\ \A f \in Fields : d.texts[f + 1] = Text(report, f)

(* C21: when send_report returns an error, on no connection of the         *)
(* operation was the whole report sent and its reply read.                 *)
C21_ErrorMeansNoExchange ==
    result.kind = "error" => \A s \in DOMAIN fds : ~C21_Exchanged(s)

\* Every send call on the connection s transferred what it was asked to,
\* and send_data made all its calls: the version and the six fields.
C22_AllSent(s) ==
    /\ Len(fds[s].wire) = 1 + Cardinality(Fields)
    /\ \A k \in DOMAIN fds[s].wire : fds[s].wire[k].sent = fds[s].wire[k].req

(* C22: when send_report returns an answer code, that value was read from  *)
(* the collector on the connection opened last, after the protocol version *)
(* and the six fields were written there in full; the initial 0 of the     *)
(* answer variable is not returned without a reply.                        *)
C22_AnswerWasReceived ==
    (variant = "connector" /\ result.kind = "answer") =>
        /\ hist.lastReply = {result.code}
        /\ socket = Len(fds)
        /\ fds[socket].rcvd = SizeofUShort
        /\ C22_AllSent(socket)
        /\ C21_Exchanged(socket)

\* The backoff sleeps of send_report: the sleeps without the launcher's wait
\* for the collector to start.
C23_Sleeps == calls["sleep"] - (IF hist.started THEN 1 ELSE 0)

\* The failed connects that are followed by a sleep: all but the 5th.
C23_Retried == hist.refused - (IF result = ErrorResult("connect") THEN 1 ELSE 0)

(* C23: send_report sleeps after a failed connect exactly when it was not  *)
(* the 5th attempt, so never after a successful connect and at most 4      *)
(* times, and every connect attempt after the first is preceded by a sleep *)
(* of its own.                                                             *)
C23_Backoff ==
    variant = "connector" =>
        /\ C23_Sleeps <= RETRY_CONNECT_COUNT - 1
        /\ pc \notin {"freeaddrinfo", "if_connect"} => C23_Sleeps = C23_Retried
        /\ calls["connect"] <= C23_Sleeps + 1

\* The number of bytes the variant's recv asks for.
C24_ReplySize == IF variant = "connector" THEN SizeofUShort ELSE SizeofInt

-----------------------------------------------------------------------------
(* C25: on every connection set_socket_nodelay is called after the connect *)
(* succeeded and before the first byte is written, and whatever setsockopt *)
(* returns the step is followed by the first send with the result of the   *)
(* operation unchanged.                                                    *)
C25_NodelayBeforeWrite ==
    /\ [](\A s \in DOMAIN fds :
            /\ fds[s].nodelay => fds[s].connected
            /\ Len(fds[s].wire) > 0 => fds[s].nodelay)
    /\ [][/\ pc = "set_socket_nodelay" =>
                /\ pc' = "send_protocol_version"
                /\ result' = result
          /\ pc = "S_set_socket_nodelay" =>
                /\ pc' = "S_send_len"
                /\ result' = result
          /\ \A s \in DOMAIN fds :
                (fds'[s].nodelay /\ ~fds[s].nodelay) =>
                    /\ pc \in {"set_socket_nodelay", "S_set_socket_nodelay"}
                    /\ s = socket
                    /\ fds[s].connected
                    /\ Len(fds[s].wire) = 0]_vars

\* setsockopt failed on the connection, and the report was sent on it and
\* answered all the same.
C25_Witness ==
    /\ variant = "connectors"
    /\ pc = "done"
    /\ hist.optFailed
    /\ result = EmptyResult
    /\ fds[socket].nodelay
    /\ Len(fds[socket].wire) > 0

-----------------------------------------------------------------------------
\* The write made last on the connection s.
C26_LastWrite(s) == fds[s].wire[Len(fds[s].wire)]

(* C26: for a field of byte length 0 send_string makes one send call, of   *)
(* the 2-byte length 0; when that call transferred 2 bytes no error is     *)
(* returned and the next field (or the read of the reply, after the last   *)
(* field) follows; no send call is ever made for the text of such a field. *)
C26_ZeroLengthField ==
    /\ [](\A s \in DOMAIN fds : \A k \in DOMAIN fds[s].wire :
            fds[s].wire[k].buf.kind = "text" => report[fds[s].wire[k].buf.v] # 0)
    /\ [][(pc \in {"send_string", "S_send_len"} /\ report[fld] = 0) =>
            /\ calls'["send"] = calls["send"] + 1
            /\ Len(fds'[socket].wire) = Len(fds[socket].wire) + 1
            /\ C26_LastWrite(socket)'.buf = BufU16(0)
            /\ C26_LastWrite(socket)'.req = SizeofUShort
            /\ C26_LastWrite(socket)'.sent = SizeofUShort =>
                  /\ result' = result
                  /\ IF fld = RF_GAME_VERSION
                     THEN pc' \in {"recv", "S_recv"}
                     ELSE pc' = pc /\ fld' = fld + 1]_vars

\* A report with an empty sender name was sent and answered: six lengths
\* and five texts were written.
C26_Witness ==
    /\ variant = "connectors"
    /\ pc = "done"
    /\ result = EmptyResult
    /\ report[RF_SENDER_NAME] = 0
    /\ report[RF_GAME_VERSION] # 0
    /\ Len(fds[socket].wire) = 2 * Cardinality(Fields) - 1

-----------------------------------------------------------------------------
\* The step sends the length prefix of the field fld: it writes the byte
\* length of the field, a value within the field's limit.
C27_WritesLength ==
    /\ C26_LastWrite(socket)'.buf = BufU16(report[fld])
    /\ report[fld] <= FieldLimit(fld)

(* C27: every send of a length prefix writes the byte length of the field  *)
(* it is sent for, a value within the field's limit.                       *)
C27_PrefixIsLength ==
    [][(pc \in {"send_string", "S_send_len"}) => C27_WritesLength]_vars

\* The same for the reports that passed reporter()'s check_fields_limit.
C27_PrefixIsLengthChecked ==
    [][(pc = "send_string") => C27_WritesLength]_vars

-----------------------------------------------------------------------------
(* C28: when send_report of the reporter_connectors variant returns a      *)
(* connection error, the last permitted of its 5 connect attempts has      *)
(* failed, each attempt but the first after a pause.                       *)
C28_ConnectorsRetries ==
    (variant = "connectors" /\ result = ErrorResult("connect")) =>
        /\ calls["connect"] = RETRY_CONNECT_COUNT
        /\ calls["sleep"] = RETRY_CONNECT_COUNT - 1

-----------------------------------------------------------------------------
\* The calls send_report makes to reach the collector.
C29_Reaching == calls["getaddrinfo"] + calls["socket"] + calls["connect"]

(* C29: reporter() resolves the address, creates a socket or connects only *)
(* after start_reporter() spawned the collector and slept; when the        *)
(* collector binary is missing or spawning it failed, reporter() returns   *)
(* -1 and made none of these calls.                                        *)
C29_LaunchedBeforeConnect ==
    variant = "connector" =>
        /\ (C29_Reaching > 0 \/ fds # <<>>) =>
              /\ hist.started
              /\ calls["spawn"] = 1
              /\ calls["sleep"] >= 1
        /\ (pc = "done" /\ limit_result = {} /\ ~hist.started) =>
              /\ ret = {-1}
              /\ C29_Reaching = 0
              /\ fds = <<>>
              /\ result = NoResult

\* Spawning the collector failed and reporter() returned -1.
C29_Witness ==
    /\ variant = "connector"
    /\ pc = "done"
    /\ ~hist.started
    /\ calls["spawn"] = 1
    /\ ret = {-1}

-----------------------------------------------------------------------------
(* C30: the code carried by a connection error that send_report returns is *)
(* the error code the last connect call produced.                          *)
C30_CodeOfLastConnect ==
    result = ErrorResult("connect") =>
        /\ hist.connectErrno # 0
        /\ return_code = hist.connectErrno

\* The same when freeaddrinfo left the error code as the connect set it.
C30_CodeOfLastConnectKept ==
    (result = ErrorResult("connect") /\ hist.errno = hist.connectErrno) =>
        /\ hist.connectErrno # 0
        /\ return_code = hist.connectErrno

-----------------------------------------------------------------------------
\* The calls that take a socket handle.
C31_SocketCalls == {"connect", "setsockopt", "send", "recv", "shutdown", "close"}

(* C31: every call of connect, setsockopt, send, recv, shutdown or close   *)
(* is made on a handle that socket() returned as valid.                    *)
C31_OnlyValidHandles ==
    [][(\E c \in C31_SocketCalls : calls'[c] > calls[c]) => ValidFd(socket)]_vars

\* The same for the calls that follow the connect.
C31_ValidAfterConnect ==
    [][(\E c \in C31_SocketCalls \ {"connect"} : calls'[c] > calls[c]) =>
            ValidFd(socket)]_vars

-----------------------------------------------------------------------------
\* The getaddrinfo calls that returned 0: a call that failed ended send_report.
C38_Resolved ==
    calls["getaddrinfo"] - (IF result = ErrorResult("getaddrinfo") THEN 1 ELSE 0)

(* C38: each address list a successful getaddrinfo gave is released by one *)
(* freeaddrinfo call before the next getaddrinfo call and before           *)
(* send_report returns; connect reads the list only before it is released, *)
(* and no list is released twice.                                          *)
C38_AddrInfoFreedOnce ==
    /\ [](/\ calls["freeaddrinfo"] + (IF addr = "alloc" THEN 1 ELSE 0) = C38_Resolved
          /\ SendReportReturned => addr # "alloc"
          /\ pc \in {"for", "getaddrinfo", "S_getaddrinfo"} => addr # "alloc")
    /\ [][/\ calls'["connect"] > calls["connect"] => addr = "alloc"
          /\ calls'["freeaddrinfo"] > calls["freeaddrinfo"] =>
                (addr = "alloc" /\ addr' = "freed")
          /\ calls'["getaddrinfo"] > calls["getaddrinfo"] => addr # "alloc"]_vars

\* reporter_connector's send_report returned after five iterations, each of
\* which obtained and released an address list.
C38_Witness ==
    /\ variant = "connector"
    /\ SendReportReturned
    /\ calls["getaddrinfo"] = RETRY_CONNECT_COUNT
    /\ calls["freeaddrinfo"] = RETRY_CONNECT_COUNT
    /\ addr = "freed"

-----------------------------------------------------------------------------
(* src/example/scenes/reporter.gd and src/example/MainScene.gd: the example *)
(* UI.  A handler that reaches an await is suspended and resumed by the     *)
(* next frame_post_draw signal; the signal resumes the handlers that wait   *)
(* for it in the order in which they began to wait.                         *)

\* The variables of the other programs, which the example UI leaves alone.
cvars == <<cppvars, gvars>>

\* How many times the Send button is pressed, and how many edits the user makes.
MaxPresses == 2
MaxEdits == 1

Scenes == {"reporter.gd", "MainScene.gd"}

\* Result codes of reporter.send_report(): everything is OK, could not
\* connect to the server (one of the codes that only show a message), the
\* attachments exceed the server's limit.
RC_OK == 0
RC_CONNECT == 3
RC_ATTACHMENTS == 9
ResultCodes == {RC_OK, RC_CONNECT, RC_ATTACHMENTS}

\* initial_report_text = report_text_node.text, taken by _ready().
initial_report_text == "Describe your issue here!"

\* What the user may have typed into the boxes (all within the length limits,
\* so that _on_ReportTextTextEdit_text_changed keeps the text).
SummaryTexts == {"", "Crash on level 2"}
ReportTexts == {"", initial_report_text, "The game froze."}
NameTexts == {"", "john"}
EmailTexts == {"", "john@example.com"}

\* The messages of result_text_node.
MsgSummary == "Please add a summary."
MsgDescription == "Please fill issue description sections"
MsgSending == "Sending your report. Please wait..."
MsgReceived == "We successfully received your report! Thank you!"
MsgError(result_code) ==
    CASE result_code = RC_CONNECT -> "Could not connect to the server, error: "
      [] result_code = RC_ATTACHMENTS ->
            "An error occurred: the specified attachments exceed the maximum allowed attachment size limit."

\* The UI as one value: the nodes, the reporter, the suspended handlers, the
\* calls made, and the result codes the reporter is going to return.
UiState ==
    [report_name_node |-> report_name_node, report_text_node |-> report_text_node,
     sender_name_node |-> sender_name_node, sender_email_node |-> sender_email_node,
     screenshot_option_box |-> screenshot_option_box,
     result_text_node |-> result_text_node, ui_visible |-> ui_visible,
     reporter |-> reporter, coroutines |-> coroutines, sends |-> sends,
     codes |-> <<>>]

\* The report data of the four text boxes.
BoxTexts(u) ==
    [report_name |-> u.report_name_node, report_text |-> u.report_text_node,
     sender_name |-> u.sender_name_node, sender_email |-> u.sender_email_node]

\* The FBugReporter node before any report data was set on it.
NewReporter ==
    [report_name |-> "", report_text |-> "", sender_name |-> "",
     sender_email |-> "", screenshot |-> FALSE]

\* reporter.set_report_name(report_name); ... set_sender_email(sender_email).
SetReportData(r, args) ==
    [r EXCEPT !.report_name = args.report_name, !.report_text = args.report_text,
              !.sender_name = args.sender_name, !.sender_email = args.sender_email]

\* _on_SendReportButton_pressed of the press number n, suspended at its await.
PressedHandler(n) ==
    [press |-> n, edits |-> edits, at |-> "pressed", args |-> BoxTexts(UiState),
     take_screenshot |-> FALSE]

\* A faulty variant of ResendTakeScreenshot: the report is sent again as it was.
ResendTakeScreenshot_same(take_screenshot) == take_screenshot

\* send_report(report_name, ..., report_attachments, false): the report is
\* sent again without a screenshot.
ResendTakeScreenshot(take_screenshot) == FALSE

RECURSIVE send_report(_, _)
RECURSIVE CallReporter(_, _)

\* send_report(...) up to its first await: the report data is set on the
\* reporter; with take_screenshot the UI is hidden and the handler waits for
\* the frame, otherwise the screenshot is cleared and the report is sent.
send_report(u, h) ==
    LET v == [u EXCEPT !.reporter = SetReportData(@, h.args)]
    IN  IF h.take_screenshot
        THEN [v EXCEPT !.ui_visible = FALSE,
                       !.coroutines = Append(@, [h EXCEPT !.at = "hidden"])]
        ELSE CallReporter([v EXCEPT !.reporter.screenshot = FALSE], h)

\* var result_code: int = reporter.send_report() and what follows: code 0
\* clears the boxes; code 9 with a screenshot calls send_report again (in
\* reporter.gd); every other code shows a message.
CallReporter(u, h) ==
    LET result_code == Head(u.codes)
        v == [u EXCEPT !.codes = Tail(@),
                       !.sends = Append(@, [press |-> h.press, edits |-> h.edits,
                                            report |-> u.reporter,
                                            code |-> result_code])]
    IN  IF result_code = RC_OK
        THEN [v EXCEPT !.result_text_node = MsgReceived,
                       !.report_name_node = "",
                       !.sender_name_node = "",
                       !.sender_email_node = "",
                       !.screenshot_option_box =
                            IF scene = "reporter.gd" THEN 0 ELSE @,
                       !.report_text_node = initial_report_text]
        ELSE IF result_code = RC_ATTACHMENTS /\ scene = "reporter.gd"
                /\ h.take_screenshot
        THEN send_report(v, [h EXCEPT !.take_screenshot =
                                        ResendTakeScreenshot(h.take_screenshot)])
        ELSE [v EXCEPT !.result_text_node = MsgError(result_code)]

\* The handler h goes on after its await, up to its next await or its end.
Resume(u, h) ==
    CASE h.at = "pressed" ->
            \* the boxes are read and send_report is called
            send_report(u, [h EXCEPT !.args = BoxTexts(u),
                                     !.take_screenshot = (u.screenshot_option_box = 1)])
      [] h.at = "hidden" ->
            \* the image is taken, the UI is shown, another frame is awaited
            [u EXCEPT !.ui_visible = TRUE,
                      !.coroutines = Append(@, [h EXCEPT !.at = "shown"])]
      [] h.at = "shown" ->
            \* reporter.set_screenshot(img), and the report is sent
            CallReporter([u EXCEPT !.reporter.screenshot = TRUE], h)

\* frame_post_draw is emitted: the handlers hs that waited for it go on one
\* after the other.
RECURSIVE Emit(_, _)
Emit(u, hs) == IF hs = <<>> THEN u ELSE Emit(Resume(u, Head(hs)), Tail(hs))

\* _on_SendReportButton_pressed up to its await: without a summary or a
\* description only a message is shown.
UI_Press ==
    /\ ui_visible
    /\ presses < MaxPresses
    /\ presses' = presses + 1
    /\ IF report_name_node = ""
       THEN /\ result_text_node' = MsgSummary
            /\ coroutines' = coroutines
       ELSE IF initial_report_text = report_text_node \/ report_text_node = ""
       THEN /\ result_text_node' = MsgDescription
            /\ coroutines' = coroutines
       ELSE /\ result_text_node' = MsgSending
            /\ coroutines' = Append(coroutines, PressedHandler(presses + 1))
    /\ UNCHANGED <<cvars, scene, report_name_node, report_text_node, sender_name_node,
                   sender_email_node, screenshot_option_box, ui_visible, reporter,
                   sends, edits>>

\* The frame was drawn: every suspended handler is resumed.
UI_FramePostDraw ==
    /\ coroutines # <<>>
    /\ \E codes \in [1 .. 2 * Len(coroutines) -> ResultCodes] :
        LET u == Emit([UiState EXCEPT !.coroutines = <<>>, !.codes = codes], coroutines)
        IN  /\ report_name_node' = u.report_name_node
            /\ report_text_node' = u.report_text_node
            /\ sender_name_node' = u.sender_name_node
            /\ sender_email_node' = u.sender_email_node
            /\ screenshot_option_box' = u.screenshot_option_box
            /\ result_text_node' = u.result_text_node
            /\ ui_visible' = u.ui_visible
            /\ reporter' = u.reporter
            /\ coroutines' = u.coroutines
            /\ sends' = u.sends
    /\ UNCHANGED <<cvars, scene, presses, edits>>

\* The user changes the text of one box, or the screenshot option.
UI_Edit ==
    /\ ui_visible
    /\ edits < MaxEdits
    /\ edits' = edits + 1
    /\ \/ /\ report_name_node' \in SummaryTexts \ {report_name_node}
          /\ UNCHANGED <<report_text_node, sender_name_node, sender_email_node,
                         screenshot_option_box>>
       \/ /\ report_text_node' \in ReportTexts \ {report_text_node}
          /\ UNCHANGED <<report_name_node, sender_name_node, sender_email_node,
                         screenshot_option_box>>
       \/ /\ sender_name_node' \in NameTexts \ {sender_name_node}
          /\ UNCHANGED <<report_name_node, report_text_node, sender_email_node,
                         screenshot_option_box>>
       \/ /\ sender_email_node' \in EmailTexts \ {sender_email_node}
          /\ UNCHANGED <<report_name_node, report_text_node, sender_name_node,
                         screenshot_option_box>>
       \/ /\ screenshot_option_box' = 1 - screenshot_option_box
          /\ UNCHANGED <<report_name_node, report_text_node, sender_name_node,
                         sender_email_node>>
    /\ UNCHANGED <<cvars, scene, result_text_node, ui_visible, reporter, coroutines,
                   sends, presses>>

\* The scene is shown after _ready(); the user has filled in the boxes.
InitUI ==
    /\ variant = "example"
    /\ report = MainReport
    /\ InitOne
    /\ win32 = FALSE
    /\ threads = <<>>
    /\ ptab = <<>>
    /\ alone = <<>>
    /\ foreign = FALSE
    /\ NoInstaller
    /\ scene \in Scenes
    /\ report_name_node \in SummaryTexts
    /\ report_text_node \in ReportTexts
    /\ sender_name_node \in NameTexts
    /\ sender_email_node \in EmailTexts
    /\ screenshot_option_box \in {0, 1}
    /\ result_text_node = ""
    /\ ui_visible = TRUE
    /\ reporter = NewReporter
    /\ coroutines = <<>>
    /\ sends = <<>>
    /\ presses = 0
    /\ edits = 0

NextUI ==
    \/ UI_Press
    \/ UI_Edit
    \/ UI_FramePostDraw

SpecUI == InitUI /\ [][NextUI]_vars

\* The example UI when no press arrives while a handler is suspended.
SpecUISerial ==
    InitUI /\ [][NextUI /\ (presses' # presses => coroutines = <<>>)]_vars

-----------------------------------------------------------------------------
\* The calls of reporter.send_report() that returned 0.
C32_Received == {k \in DOMAIN sends : sends[k].code = RC_OK}

(* C32: of the presses of Send made with no edit by the user in between,   *)
(* at most one leads to a report that is sent successfully.                *)
C32_OneReportPerEdit ==
    \A k, l \in C32_Received : sends[k].edits = sends[l].edits => k = l

-----------------------------------------------------------------------------
\* The calls of reporter.send_report() that the press number n caused.
C33_SendsOf(n) == {k \in DOMAIN sends : sends[k].press = n}

-----------------------------------------------------------------------------
\* A report that _on_SendReportButton_pressed refuses: no summary, or no
\* description of the user's own.
C34_Refused(report_name, report_text) ==
    report_name = "" \/ report_text = "" \/ report_text = initial_report_text

C34_RefusedPressOnlyShowsMessage ==
    [][(presses' # presses /\ C34_Refused(report_name_node, report_text_node)) =>
            /\ result_text_node' \in {MsgSummary, MsgDescription}
            /\ UNCHANGED <<report_name_node, report_text_node, sender_name_node,
                           sender_email_node, screenshot_option_box, ui_visible,
                           reporter, coroutines, sends>>]_vars

-----------------------------------------------------------------------------
(* src/install/install_server/install_server.go and                         *)
(* src/install/install_reporter/install_reporter.go: the installers.  A     *)
(* string is a sequence of tokens, a file a sequence of lines (each one     *)
(* ended by a newline).                                                     *)

\* How many times an installer is run over the same directories.
MaxRuns == 2

\* A file with the given lines, and a path where no file is.
File(lines) == [exists |-> TRUE, lines |-> lines]
NoFile == [exists |-> FALSE, lines |-> <<>>]

\* What cargo build leaves in target/release, what an earlier installation
\* left in the installation directory, and what os.Create leaves of a file
\* when io.Copy then fails.
Built == File(<<<<"built">>>>)
OldBuild == File(<<<<"old">>>>)
Truncated == File(<<>>)

\* The files of the installation directory of the server and of the Godot
\* project (the .exe, .dll and .so suffixes are left out).
ServerFiles == {"server", "database_manager", "server_monitor", "sqlite3.dll"}
ProjectFiles == {"libreporter", "FBugReporter.gdextension", "extension_list.cfg",
                 "reporter.tscn", "reporter.gd"}

\* What copy(src, dst) may meet: os.Stat or os.Open of src fails, os.Create
\* of dst fails, io.Copy fails, or the file is copied.
CopyOutcomes == {"no_source", "create_failed", "copy_failed", "copied"}

\* copy(src, dst) of the content `source` with the outcome o: the files
\* afterwards, and whether copy returned true (failed).
copy(fs, source, dst, o) ==
    CASE o = "no_source" -> [files |-> fs, failed |-> TRUE]
      [] o = "create_failed" -> [files |-> fs, failed |-> TRUE]
      [] o = "copy_failed" -> [files |-> [fs EXCEPT ![dst] = Truncated], failed |-> TRUE]
      [] o = "copied" -> [files |-> [fs EXCEPT ![dst] = source], failed |-> FALSE]

\* os.IsNotExist(err) for the error of os.Stat of a path.
IsNotExist(exists) == ~exists

\* err == os.ErrNotExist for the error of os.Stat of a path: os.Stat returns
\* a *fs.PathError that wraps os.ErrNotExist and is never equal to it.
EqualsErrNotExist(exists) == FALSE

\* The three programs of the server, in the order they are installed.
ServerApps == <<"server", "database_manager", "server_monitor">>

\* The step install_server takes after the program number n is installed.
AfterApp(n) ==
    IF n = Len(ServerApps) THEN "install_server" ELSE "install_" \o ServerApps[n + 1] \o "_app"

\* The body of install_server_app, install_database_manager_app and
\* install_server_monitor_app (the program number n): os.Stat of Cargo.toml,
\* cargo build --release, copy of the binary into the installation
\* directory (with sqlite3.dll for the server on Windows).  What copy returns
\* is not looked at.
InstallApp(n, cargo_toml_missing) ==
    /\ step = "install_" \o ServerApps[n] \o "_app"
    /\ \E built \in BOOLEAN, o \in CopyOutcomes, dll \in CopyOutcomes :
        IF cargo_toml_missing
        THEN /\ printed' = printed \cup {"Could not find source code"}
             /\ step' = "stopped"
             /\ files' = files
        ELSE IF ~built
        THEN /\ printed' = printed \cup {"err"}
             /\ step' = "stopped"
             /\ files' = files
        ELSE LET app == copy(files, Built, ServerApps[n], o)
                 all == IF goos = "windows" /\ n = 1
                        THEN copy(app.files, Built, "sqlite3.dll", dll)
                        ELSE [files |-> app.files, failed |-> FALSE]
             IN  /\ files' = all.files
                 /\ printed' = IF app.failed \/ all.failed
                               THEN printed \cup {"err"} ELSE printed
                 /\ step' = AfterApp(n)
    /\ UNCHANGED <<cppvars, uvars, program, goos, script_dir, asked, runs>>

install_server_app ==
    /\ program = "install_server"
    /\ \E cargo_toml \in BOOLEAN : InstallApp(1, IsNotExist(cargo_toml))

install_database_manager_app ==
    /\ program = "install_server"
    /\ \E cargo_toml \in BOOLEAN : InstallApp(2, EqualsErrNotExist(cargo_toml))

install_server_monitor_app ==
    /\ program = "install_server"
    /\ \E cargo_toml \in BOOLEAN : InstallApp(3, EqualsErrNotExist(cargo_toml))

\* install_server after the three programs returned false: "Installation is
\* finished.", then on Linux chmod +x of the three binaries, the question
\* about the systemd service and install_systemd_service.
install_server ==
    /\ program = "install_server"
    /\ step = "install_server"
    /\ step' = "end"
    /\ \E chmod \in BOOLEAN, answer \in {"yes", "no", "eof"}, service \in BOOLEAN :
        printed' = printed \cup {"Installation is finished."} \cup
            (IF goos = "windows" THEN {"not added to autostart"}
             ELSE IF ~chmod THEN {"err"}
             ELSE IF answer = "eof" THEN {"An error occurred"}
             ELSE IF answer = "yes" /\ ~service THEN {"err"}
             ELSE {"Finished installation."})
    /\ UNCHANGED <<cppvars, uvars, program, goos, files, script_dir, asked, runs>>

\* strings.Contains(line, sub) on sequences of tokens.
Contains(line, sub) ==
    \E k \in 1 .. Len(line) - Len(sub) + 1 :
        SubSeq(line, k, k + Len(sub) - 1) = sub

\* strings.ReplaceAll(line, from, to) on sequences of tokens (from is not
\* empty).
RECURSIVE ReplaceAll(_, _, _)
ReplaceAll(line, from, to) ==
    IF Len(line) < Len(from) THEN line
    ELSE IF SubSeq(line, 1, Len(from)) = from
    THEN to \o ReplaceAll(SubSeq(line, Len(from) + 1, Len(line)), from, to)
    ELSE <<Head(line)>> \o ReplaceAll(Tail(line), from, to)

\* reporter_script_name and reporter_scene_script_relative_path.
reporter_script_name == <<"reporter.gd">>
reporter_scene_script_relative_path == <<"res://", "scenes", "/">> \o reporter_script_name

\* The directories the user may name for the script and the scene, relative
\* to the project: the one of the example project, and another one.
ScriptDirs == {"scenes", "addons"}

\* script_relative of write_script_files.
script_relative == <<"res://", script_dir, "/">> \o reporter_script_name

\* scenes/reporter.tscn and scenes/reporter.gd of the example project.
ExampleScene ==
    File(<<<<"[gd_scene]">>,
           <<"[ext_resource path=">> \o reporter_scene_script_relative_path>>)
ExampleScript == File(<<<<"extends Control">>>>)

\* What write_gdext saves in FBugReporter.gdextension.
GdextFile == File(<<<<"[configuration]">>>>)

\* gdext_relative of write_gdext, and the line that enables the extension.
gdext_relative == <<"ext/", "FBugReporter.gdextension">>
ReporterLine == <<"res://">> \o gdext_relative

\* The line of another extension, and the line of an extension file of the
\* same name in a directory whose path ends like the reporter's.
OtherLine == <<"res://", "other.gdextension">>
DeeperLine == <<"res://", "old/">> \o gdext_relative

\* .godot/extension_list.cfg before the first run of the installer.
ExtensionLists ==
    {NoFile, File(<<>>), File(<<OtherLine>>), File(<<DeeperLine>>),
     File(<<OtherLine, ReporterLine>>)}

\* How many lines of the file are the line.
RECURSIVE Occurrences(_, _)
Occurrences(lines, line) ==
    IF lines = <<>> THEN 0
    ELSE (IF Head(lines) = line THEN 1 ELSE 0) + Occurrences(Tail(lines), line)

\* does_extension_list_contains_reporter: false when os.Open fails, else
\* whether some line contains the string.
does_extension_list_contains_reporter(file, string_to_look_for, opened) ==
    /\ opened
    /\ \E k \in 1 .. Len(file.lines) : Contains(file.lines[k], string_to_look_for)

\* install_reporter up to the copy of the library: os.Stat of Cargo.toml,
\* cargo build --release, copy (its result is looked at).
install_reporter ==
    /\ program = "install_reporter"
    /\ step = "install_reporter"
    /\ \E cargo_toml \in BOOLEAN, built \in BOOLEAN, o \in CopyOutcomes :
        IF EqualsErrNotExist(cargo_toml)
        THEN /\ printed' = printed \cup {"Could not find source code"}
             /\ step' = "stopped"
             /\ files' = files
        ELSE IF ~built
        THEN /\ printed' = printed \cup {"err"}
             /\ step' = "stopped"
             /\ files' = files
        ELSE LET c == copy(files, Built, "libreporter", o)
             IN  /\ files' = c.files
                 /\ printed' = IF c.failed THEN printed \cup {"err"} ELSE printed
                 /\ step' = IF c.failed THEN "stopped" ELSE "write_gdext"
    /\ UNCHANGED <<cppvars, uvars, program, goos, script_dir, asked, runs>>

\* write_gdext: the .gdextension file is removed and saved again; the
\* extension list is created when it is not there, left alone when
\* does_extension_list_contains_reporter finds the path, and else gets
\* "\nres://" + gdext_relative + "\n" appended.
write_gdext ==
    /\ program = "install_reporter"
    /\ step = "write_gdext"
    /\ \E saved \in BOOLEAN, created \in BOOLEAN, opened \in BOOLEAN,
          appended \in BOOLEAN :
        LET list == files["extension_list.cfg"]
            fail(fs) == /\ files' = fs
                        /\ printed' = printed \cup {"err"}
                        /\ step' = "stopped"
            gone == [files EXCEPT !["FBugReporter.gdextension"] = NoFile]
            kept == [files EXCEPT !["FBugReporter.gdextension"] = GdextFile]
            made == [kept EXCEPT !["extension_list.cfg"] = File(<<>>)]
            append(fs) ==
                IF ~appended THEN fail(fs)
                ELSE /\ files' = [fs EXCEPT !["extension_list.cfg"] =
                            File(fs["extension_list.cfg"].lines \o <<<<>>, ReporterLine>>)]
                     /\ printed' = printed \cup {"Enabled"}
                     /\ step' = "write_scene"
        IN  IF ~saved THEN fail(gone)
            ELSE IF IsNotExist(list.exists)
            THEN IF ~created THEN fail(kept) ELSE append(made)
            ELSE IF does_extension_list_contains_reporter(list, gdext_relative, opened)
            THEN /\ files' = kept
                 /\ printed' = printed \cup {"Found already enabled"}
                 /\ step' = "write_scene"
            ELSE append(kept)
    /\ UNCHANGED <<cppvars, uvars, program, goos, script_dir, asked, runs>>

\* What replace_string_in_file may meet: os.Open of the file fails,
\* os.Create of the file with "~" fails, os.Remove of the file fails,
\* os.Rename fails, or the file is rewritten.
ReplaceOutcomes ==
    {"open_failed", "create_failed", "remove_failed", "rename_failed", "rewritten"}

\* The lines replace_string_in_file writes.
ReplacedLines(lines, replace_from, replace_to) ==
    [k \in 1 .. Len(lines) |->
        IF Contains(lines[k], replace_from)
        THEN ReplaceAll(lines[k], replace_from, replace_to) ELSE lines[k]]

\* replace_string_in_file with the outcome o: the files afterwards, what is
\* printed, and whether it returned true (failed).
replace_string_in_file(fs, file_path, replace_from, replace_to, o) ==
    LET found == \E k \in 1 .. Len(fs[file_path].lines) :
                     Contains(fs[file_path].lines[k], replace_from)
        new == File(ReplacedLines(fs[file_path].lines, replace_from, replace_to))
    IN  CASE o \in {"open_failed", "create_failed", "remove_failed"} ->
                [files |-> fs, printed |-> {"err"}, failed |-> TRUE]
          [] o = "rename_failed" ->
                [files |-> [fs EXCEPT ![file_path] = NoFile], printed |-> {"err"},
                 failed |-> TRUE]
          [] o = "rewritten" ->
                [files |-> [fs EXCEPT ![file_path] = new],
                 printed |-> IF found THEN {} ELSE {"Failed to find replace from string"},
                 failed |-> ~found]

\* The answers ask_user may return: yes, no, or empty when reading fails.
Answers == {"yes", "no", "eof"}

\* write_script_files for reporter.tscn: the question when the file exists,
\* the copy unless the answer was no, and replace_string_in_file in every
\* case.
write_script_files_scene ==
    /\ program = "install_reporter"
    /\ step = "write_scene"
    /\ \E answer \in Answers, c \in CopyOutcomes, o \in ReplaceOutcomes :
        LET exists == files["reporter.tscn"].exists
            should_copy == ~(exists /\ answer = "no")
            copied == IF should_copy THEN copy(files, ExampleScene, "reporter.tscn", c)
                      ELSE [files |-> files, failed |-> FALSE]
            replaced == replace_string_in_file(copied.files, "reporter.tscn",
                            reporter_scene_script_relative_path, script_relative, o)
        IN  /\ asked' = IF exists
                        THEN Append(asked, [file |-> "reporter.tscn", answer |-> answer,
                                            before |-> files["reporter.tscn"]])
                        ELSE asked
            /\ IF exists /\ answer = "eof"
               THEN /\ files' = files
                    /\ printed' = printed \cup {"An error occurred"}
                    /\ step' = "stopped"
               ELSE IF copied.failed
               THEN /\ files' = copied.files
                    /\ printed' = printed \cup {"err"}
                    /\ step' = "stopped"
               ELSE /\ files' = replaced.files
                    /\ printed' = printed \cup replaced.printed
                    /\ step' = IF replaced.failed THEN "stopped" ELSE "write_script"
    /\ UNCHANGED <<cppvars, uvars, program, goos, script_dir, runs>>

\* write_script_files for reporter.gd, and the end of install_reporter: the
\* question when the file exists, the copy unless the answer was no, then
\* "Installation is finished.".
write_script_files_script ==
    /\ program = "install_reporter"
    /\ step = "write_script"
    /\ \E answer \in Answers, c \in CopyOutcomes :
        LET exists == files["reporter.gd"].exists
            should_copy == ~(exists /\ answer = "no")
            copied == IF should_copy THEN copy(files, ExampleScript, "reporter.gd", c)
                      ELSE [files |-> files, failed |-> FALSE]
        IN  /\ asked' = IF exists
                        THEN Append(asked, [file |-> "reporter.gd", answer |-> answer,
                                            before |-> files["reporter.gd"]])
                        ELSE asked
            /\ IF exists /\ answer = "eof"
               THEN /\ files' = files
                    /\ printed' = printed \cup {"An error occurred"}
                    /\ step' = "stopped"
               ELSE IF copied.failed
               THEN /\ files' = copied.files
                    /\ printed' = printed \cup {"err"}
                    /\ step' = "stopped"
               ELSE /\ files' = copied.files
                    /\ printed' = printed \cup {"Installation is finished."}
                    /\ step' = "end"
    /\ UNCHANGED <<cppvars, uvars, program, goos, script_dir, runs>>

\* The installer is started again over the same directories, with the same
\* answers about them.
RunAgain ==
    /\ program \in {"install_server", "install_reporter"}
    /\ step \in {"end", "stopped"}
    /\ runs < MaxRuns
    /\ runs' = runs + 1
    /\ step' = IF program = "install_server" THEN "install_server_app"
               ELSE "install_reporter"
    /\ printed' = {}
    /\ asked' = <<>>
    /\ UNCHANGED <<cppvars, uvars, program, goos, files, script_dir>>

\* The installer is started: the directories as an earlier installation or
\* none left them.
InitInstall ==
    /\ variant = "installer"
    /\ report = MainReport
    /\ InitOne
    /\ win32 = FALSE
    /\ threads = <<>>
    /\ ptab = <<>>
    /\ alone = <<>>
    /\ foreign = FALSE
    /\ NoScene
    /\ program \in {"install_server", "install_reporter"}
    /\ goos \in {"windows", "linux"}
    /\ runs = 1
    /\ printed = {}
    /\ asked = <<>>
    /\ \/ /\ program = "install_server"
          /\ step = "install_server_app"
          /\ script_dir = "none"
          /\ \E old \in {NoFile, OldBuild} :
                files = [f \in ServerFiles \cup ProjectFiles |->
                            IF f \in ServerFiles /\ (f = "sqlite3.dll" => goos = "windows")
                            THEN old ELSE NoFile]
       \/ /\ program = "install_reporter"
          /\ step = "install_reporter"
          /\ script_dir \in ScriptDirs
          /\ \E list \in ExtensionLists :
                files = [f \in ServerFiles \cup ProjectFiles |->
                            IF f = "extension_list.cfg" THEN list ELSE NoFile]

NextInstall ==
    \/ install_server_app
    \/ install_database_manager_app
    \/ install_server_monitor_app
    \/ install_server
    \/ install_reporter
    \/ write_gdext
    \/ write_script_files_scene
    \/ write_script_files_script
    \/ RunAgain

SpecInstall == InitInstall /\ [][NextInstall]_vars

-----------------------------------------------------------------------------
(* Claims about the installers *)

\* C35: install_server prints "Installation is finished." only if all three
\* programs were compiled and copied into the installation directory.
C35_FinishedOnlyIfAllCopied ==
    (program = "install_server" /\ "Installation is finished." \in printed)
        => \A n \in 1 .. Len(ServerApps) : files[ServerApps[n]] = Built

\* C35, the half about the compilation: a step that stops the installation
\* (Cargo.toml not found, or cargo build failed) has copied nothing.
C35_StopsWhenNotCompiled ==
    [][(program = "install_server" /\ step' = "stopped") => files' = files]_vars

\* What an installation that finished left at the path: the scene of the
\* example with the path of the script replaced, and the script.
C36_Installed(file) ==
    IF file = "reporter.tscn"
    THEN File(ReplacedLines(ExampleScene.lines, reporter_scene_script_relative_path,
                            script_relative))
    ELSE ExampleScript

\* The user answered no for a file that an earlier installation left, and
\* no call of the operating system and no reading of an answer has failed
\* in this run.
C36_AnsweredNo(n) ==
    /\ asked[n].answer = "no"
    /\ asked[n].before = C36_Installed(asked[n].file)
    /\ "err" \notin printed
    /\ "An error occurred" \notin printed

\* C36: answering no to the question about an existing reporter.tscn or
\* reporter.gd keeps that file's content, and the installation goes on to
\* the next file and finishes.
C36_NoKeepsFileAndFinishes ==
    \A n \in 1 .. Len(asked) :
        C36_AnsweredNo(n)
            => /\ files[asked[n].file] = asked[n].before
               /\ step # "stopped"

\* C36, the half about the content: a file the user answered no for has the
\* content it had.
C36_NoKeepsContent ==
    \A n \in 1 .. Len(asked) :
        C36_AnsweredNo(n) => files[asked[n].file] = asked[n].before

\* C36 where the script and the scene are in the directory "scenes" of the
\* project, as in the example: the installation is not stopped after a no.
C36_FinishesInScenes ==
    \A n \in 1 .. Len(asked) :
        (C36_AnsweredNo(n) /\ script_dir = "scenes") => step # "stopped"

\* C36: the question is asked for each of the two files that exists.
C36_AsksForEachExistingFile ==
    [][(program = "install_reporter" /\ step \in {"write_scene", "write_script"})
        => LET f == IF step = "write_scene" THEN "reporter.tscn" ELSE "reporter.gd"
           IN  (Len(asked') = Len(asked) + 1) = files[f].exists]_vars

\* C37: after write_gdext returned false, the reporter's path is listed
\* exactly once in extension_list.cfg.
C37_ListedExactlyOnce ==
    (program = "install_reporter" /\ step \in {"write_scene", "write_script", "end"})
        => Occurrences(files["extension_list.cfg"].lines, ReporterLine) = 1

\* C37, the second half: a run of write_gdext that finds the path already
\* listed leaves extension_list.cfg unchanged.
C37_FoundLeavesUnchanged ==
    [][("Found already enabled" \in printed' /\ "Found already enabled" \notin printed)
        => files'["extension_list.cfg"] = files["extension_list.cfg"]]_vars

\* C37 where no other line contains the path: the path is listed once or,
\* when os.Open failed in a later run, more than once, and never less.
C37_ListedAtLeastOnce ==
    (/\ program = "install_reporter"
     /\ step \in {"write_scene", "write_script", "end"}
     /\ \A n \in 1 .. Len(files["extension_list.cfg"].lines) :
            files["extension_list.cfg"].lines[n] # DeeperLine)
        => Occurrences(files["extension_list.cfg"].lines, ReporterLine) >= 1

=============================================================================
